---- MODULE Spec2Model ----
(***************************************************************************)
(* Model of the anomaly-detection core                                     *)
(*   src/apps/ai-engine/models/anomalyDetector.js                          *)
(* (classes IsolationForest and AnomalyDetector).                          *)
(*                                                                         *)
(* Representation choices.                                                 *)
(*  - An array of samples (the training buffer, a batch handed to          *)
(*    updateModel, a training matrix, a matrix column) is kept run-length  *)
(*    encoded: a sequence of runs [v |-> value, n |-> count], with no      *)
(*    empty run and no two adjacent runs of the same value.  Two arrays    *)
(*    are equal iff their encodings are equal, so the program's own        *)
(*    constants (10000, 1000, 100, 50, 10) are kept as they are.           *)
(*  - JavaScript numbers are integers here.  Feature values are integers   *)
(*    in 0..100; scores are in thousandths (0..1000); a division           *)
(*    truncates.                                                           *)
(*  - The tree collection of the forest is summarised by the number of     *)
(*    trees pushed, the matrix they were built from and, for every vector  *)
(*    inference is asked about, the score 2^(-avgPathLength/c(256)) the    *)
(*    randomly built trees give it.  Math.random() during fit is the       *)
(*    nondeterministic choice of that score table.                         *)
(*  - JavaScript runs a callback to completion: an async method is one     *)
(*    action per stretch of code between two awaits.                       *)
(***************************************************************************)
EXTENDS Integers, Sequences, FiniteSets, TLC

VARIABLES
    detector,   \* the AnomalyDetector object
    pc,         \* where each initialize() call stands
    now,        \* the clock read by new Date(): the training passes completed
    calls,      \* the updateModel() calls made
    pending,    \* the samples updateModel() added since the last completed pass
    last,       \* the last call or step: what it was given and what came of it
    iforest,    \* an IsolationForest object, tree by tree
    engine,     \* the AIAnalysisEngine object and the timer it has set
    inflight,   \* the performAnalysis() call that stands at an await
    clock,      \* the clock read by Date.now(), in hours
    trace       \* what the collaborators of the engine have been handed

detectorVars == <<detector, pc, now, calls, pending>>
forestVars == <<iforest>>
engineVars == <<engine, inflight, clock, trace>>
vars == <<detector, pc, now, calls, pending, last, iforest, engine, inflight, clock, trace>>

----------------------------------------------------------------------------
(* Bounds of the model *)

MaxInit == 2          \* initialize() calls that may be in flight
MaxCalls == 2         \* updateModel() calls in one behaviour
MaxClock == 2         \* successful training passes in one behaviour
MaxBatchLen == 2      \* rows of a detectBatch() input
MaxFill == 90         \* updateModel() calls in one behaviour of SpecFill
MaxAnalyses == 2      \* analyzeData() calls in one behaviour of SpecRepeat
MaxHours == 36        \* hours that pass in one behaviour of SpecRepeat
MaxBuffer == 3        \* records in the batch buffer of SpecBatch

(* Program constants *)

NumTrees == 100            \* AnomalyDetector constructor, numTrees
SubsampleSize == 256       \* AnomalyDetector constructor, subsampleSize
MinTrainingSamples == 10   \* trainModel: trainingData.length < 10
MaxTrainingSamples == 10000 \* updateModel: keep the last 10000 samples
RetrainBatchSize == 100    \* updateModel: newData.length > 100
NumSyntheticNormal == 1000 \* generateInitialTrainingData, first loop
NumSyntheticAnomalous == 50 \* generateInitialTrainingData, second loop
AnomalyThreshold == 600    \* this.anomalyThreshold = 0.6, in thousandths
IsolationWeight == 700     \* isolationScore * 0.7
StatisticalWeight == 300   \* statisticalScore * 0.3
ZScoreWeight == 700        \* zScoreAnomaly * 0.7
IqrWeight == 300           \* iqrAnomaly * 0.3
Unit == 1000               \* the score 1.0 in thousandths

Null == "null"
NoError == "none"
NotReadyError == "Anomaly detector not ready"
NotTrainedError == "Model must be trained before prediction"
InsufficientDataError == "Insufficient training data"

----------------------------------------------------------------------------
(* Arrays, run-length encoded *)

RECURSIVE ArrLen(_)
ArrLen(a) == IF a = <<>> THEN 0 ELSE Head(a).n + ArrLen(Tail(a))

\* a.push(x) repeated k times
PushRun(a, x, k) ==
    IF k = 0 THEN a
    ELSE IF a # <<>> /\ a[Len(a)].v = x
         THEN [a EXCEPT ![Len(a)].n = @ + k]
         ELSE Append(a, [v |-> x, n |-> k])

\* a.push(...b)
RECURSIVE PushAll(_, _)
PushAll(a, b) ==
    IF b = <<>> THEN a
    ELSE PushAll(PushRun(a, Head(b).v, Head(b).n), Tail(b))

\* a without its first k elements
RECURSIVE DropFirst(_, _)
DropFirst(a, k) ==
    IF k <= 0 \/ a = <<>> THEN a
    ELSE IF Head(a).n <= k THEN DropFirst(Tail(a), k - Head(a).n)
         ELSE <<[v |-> Head(a).v, n |-> Head(a).n - k]>> \o Tail(a)

\* a.slice(-k), k > 0
SliceLast(a, k) == DropFirst(a, ArrLen(a) - k)

\* a[i], 1-based; Null past the end
RECURSIVE At(_, _)
At(a, i) ==
    IF a = <<>> \/ i < 1 THEN Null
    ELSE IF i <= Head(a).n THEN Head(a).v
         ELSE At(Tail(a), i - Head(a).n)

----------------------------------------------------------------------------
(* Samples: the feature-source objects that reach the detector *)

FeatureNames ==
    << "confidence_score", "severity_numeric", "temporal_score",
       "source_reputation", "indicator_frequency", "geographic_risk",
       "network_entropy", "behavioral_score", "correlation_count",
       "threat_actor_score" >>

NumFeatures == Len(FeatureNames)

Field(name, value) == [name |-> name, value |-> value]

\* The objects the model feeds the detector, by name.  A field an object
\* does not carry is absent from its set of fields.  The two synthetic
\* samples stand for the objects generateInitialTrainingData draws at
\* random from its "normal" and its "anomalous" ranges.
Sample(kind) ==
    CASE kind = "typical" ->
           { Field("confidence_score", 80), Field("severity_numeric", 50),
             Field("temporal_score", 60), Field("source_reputation", 80),
             Field("indicator_frequency", 6), Field("geographic_risk", 50),
             Field("network_entropy", 50), Field("behavioral_score", 50),
             Field("correlation_count", 3), Field("threat_actor_score", 45) }
      [] kind = "odd" ->
           { Field("confidence_score", 15), Field("severity_numeric", 90),
             Field("temporal_score", 5), Field("source_reputation", 10),
             Field("indicator_frequency", 45), Field("geographic_risk", 85),
             Field("network_entropy", 90), Field("behavioral_score", 85),
             Field("correlation_count", 20), Field("threat_actor_score", 85) }
      [] kind = "sparse" ->
           { Field("confidence_score", 70), Field("severity_numeric", 0),
             Field("indicator_frequency", 9) }
      [] kind = "synthetic_normal" ->
           { Field("confidence_score", 75), Field("severity_numeric", 40),
             Field("temporal_score", 70), Field("source_reputation", 85),
             Field("indicator_frequency", 5), Field("geographic_risk", 40),
             Field("network_entropy", 40), Field("behavioral_score", 45),
             Field("correlation_count", 2), Field("threat_actor_score", 30) }
      [] kind = "synthetic_anomalous" ->
           { Field("confidence_score", 20), Field("severity_numeric", 85),
             Field("temporal_score", 10), Field("source_reputation", 15),
             Field("indicator_frequency", 40), Field("geographic_risk", 80),
             Field("network_entropy", 95), Field("behavioral_score", 90),
             Field("correlation_count", 15), Field("threat_actor_score", 80) }

\* features.<name> || 0
FieldOrZero(features, name) ==
    IF \E f \in features : f.name = name
    THEN (CHOOSE f \in features : f.name = name).value
    ELSE 0

prepareFeatureVector(features) ==
    [i \in 1..NumFeatures |-> FieldOrZero(features, FeatureNames[i])]

Kinds == {"typical", "odd", "sparse", "synthetic_normal", "synthetic_anomalous"}

\* sample => this.prepareFeatureVector(sample), tabulated over the samples
Vectors == [kind \in Kinds |-> prepareFeatureVector(Sample(kind))]
VectorOf(kind) == Vectors[kind]

\* samples.map(sample => this.prepareFeatureVector(sample))
RECURSIVE VectorsOf(_)
VectorsOf(samples) ==
    IF samples = <<>> THEN <<>>
    ELSE PushAll(<<[v |-> VectorOf(Head(samples).v), n |-> Head(samples).n]>>,
                 VectorsOf(Tail(samples)))

\* What updateModel() is handed
NewDataInputs ==
    { <<[v |-> "typical", n |-> 9]>>,
      <<[v |-> "sparse", n |-> 1]>>,
      <<[v |-> "sparse", n |-> 100]>>,
      <<[v |-> "typical", n |-> 60], [v |-> "sparse", n |-> 41]>>,
      <<[v |-> "typical", n |-> 9950]>> }

\* What detect() and detectBatch() are handed
DetectKinds == {"typical", "odd"}
DetectVectors == { VectorOf(k) : k \in DetectKinds }
RECURSIVE SeqsUpTo(_, _)
SeqsUpTo(S, k) ==
    IF k = 0 THEN {<<>>}
    ELSE LET shorter == SeqsUpTo(S, k - 1)
         IN shorter \cup { Append(q, x) : q \in shorter, x \in S }
BatchInputs == {<<>>} \cup (SeqsUpTo(DetectKinds, MaxBatchLen) \ SeqsUpTo(DetectKinds, MaxBatchLen - 1))

----------------------------------------------------------------------------
(* class IsolationForest *)

\* this.trees = []
EmptyTrees == [count |-> 0, matrix |-> <<>>, score |-> <<>>]

\* What the random tree construction may make of the vectors inference is
\* asked about: their scores, in thousandths.
ScoreTables ==
    { [v \in DetectVectors |-> IF v = VectorOf("odd") THEN 800 ELSE 450],
      [v \in DetectVectors |-> IF v = VectorOf("odd") THEN 450 ELSE 800] }

IsolationForest(numTrees, subsampleSize) ==
    [numTrees |-> numTrees, subsampleSize |-> subsampleSize,
     trees |-> EmptyTrees, trained |-> FALSE]

\* fit(X): empty the collection, push numTrees trees built from X, set the
\* trained flag.  rnd is the outcome of the random choices.
Fit(forest, X, rnd) ==
    LET emptied == [forest EXCEPT !.trees = EmptyTrees]
        built == [emptied EXCEPT
                    !.trees = [count |-> forest.numTrees, matrix |-> X, score |-> rnd]]
    IN [built EXCEPT !.trained = TRUE]

\* predict(X) for a list X of rows: an error, or one score per row
Predict(forest, X) ==
    IF ~forest.trained
    THEN [error |-> NotTrainedError, scores |-> <<>>]
    ELSE [error |-> NoError,
          scores |-> [i \in 1..Len(X) |-> forest.trees.score[X[i]]]]

----------------------------------------------------------------------------
(* Statistics of a matrix column (an array of integers) *)

RECURSIVE SumArr(_)
SumArr(col) == IF col = <<>> THEN 0 ELSE Head(col).v * Head(col).n + SumArr(Tail(col))

RECURSIVE SumSquares(_, _)
SumSquares(col, mean) ==
    IF col = <<>> THEN 0
    ELSE (Head(col).v - mean) * (Head(col).v - mean) * Head(col).n
         + SumSquares(Tail(col), mean)

\* Math.sqrt, truncated: the r with r*r <= x < (r+1)*(r+1), lo <= r < hi
RECURSIVE SqrtBetween(_, _, _)
SqrtBetween(x, lo, hi) ==
    IF hi - lo <= 1 THEN lo
    ELSE LET mid == (lo + hi) \div 2
         IN IF mid * mid <= x THEN SqrtBetween(x, mid, hi) ELSE SqrtBetween(x, lo, mid)

Sqrt(x) == SqrtBetween(x, 0, x + 1)

Abs(x) == IF x < 0 THEN -x ELSE x
Min(a, b) == IF a < b THEN a ELSE b

\* the run of x put in its place in an array sorted by value
RECURSIVE InsertSorted(_, _, _)
InsertSorted(sorted, x, k) ==
    IF sorted = <<>> THEN <<[v |-> x, n |-> k]>>
    ELSE IF Head(sorted).v < x
         THEN <<Head(sorted)>> \o InsertSorted(Tail(sorted), x, k)
         ELSE IF Head(sorted).v = x
              THEN <<[v |-> x, n |-> Head(sorted).n + k]>> \o Tail(sorted)
              ELSE <<[v |-> x, n |-> k]>> \o sorted

\* [...column].sort((a, b) => a - b)
RECURSIVE SortArr(_)
SortArr(col) ==
    IF col = <<>> THEN <<>>
    ELSE InsertSorted(SortArr(Tail(col)), Head(col).v, Head(col).n)

\* matrix.map(row => row[i])
RECURSIVE ColumnOf(_, _)
ColumnOf(matrix, i) ==
    IF matrix = <<>> THEN <<>>
    ELSE PushAll(<<[v |-> Head(matrix).v[i], n |-> Head(matrix).n]>>,
                 ColumnOf(Tail(matrix), i))

\* One pass of the loop of calculateStatisticalBaseline: the mean, the
\* standard deviation and the quantiles of feature i
FeatureStats(trainingMatrix, numSamples, i) ==
    LET column == ColumnOf(trainingMatrix, i)
        mean == SumArr(column) \div numSamples
        variance == SumSquares(column, mean) \div numSamples
        sorted == SortArr(column)
        q1Index == numSamples \div 4
        q3Index == (numSamples * 3) \div 4
    IN [mean |-> mean,
        std |-> Sqrt(variance),
        quantiles |-> [q1 |-> At(sorted, q1Index + 1),
                       q3 |-> At(sorted, q3Index + 1),
                       median |-> At(sorted, numSamples \div 2 + 1)]]

\* calculateStatisticalBaseline(trainingMatrix): the three arrays are
\* emptied and one entry per feature is pushed on each.
calculateStatisticalBaseline(trainingMatrix) ==
    LET numFeatures == Len(At(trainingMatrix, 1))
        numSamples == ArrLen(trainingMatrix)
        RECURSIVE StatsFrom(_)
        StatsFrom(i) ==
            IF i > numFeatures THEN <<>>
            ELSE <<FeatureStats(trainingMatrix, numSamples, i)>> \o StatsFrom(i + 1)
        stats == StatsFrom(1)
    IN [means |-> [i \in 1..numFeatures |-> stats[i].mean],
        stds |-> [i \in 1..numFeatures |-> stats[i].std],
        quantiles |-> [i \in 1..numFeatures |-> stats[i].quantiles]]

----------------------------------------------------------------------------
(* class AnomalyDetector: inference *)

\* z-score of feature i against the baseline, in thousandths; 0 when the
\* standard deviation is 0
ZScore(baseline, featureVector, i) ==
    IF baseline.stds[i] > 0
    THEN (Abs(featureVector[i] - baseline.means[i]) * Unit) \div baseline.stds[i]
    ELSE 0

RECURSIVE SumSeq(_)
SumSeq(q) == IF q = <<>> THEN 0 ELSE Head(q) + SumSeq(Tail(q))

detectStatisticalAnomaly(baseline, featureVector) ==
    IF Len(baseline.means) = 0 THEN Unit \div 2
    ELSE
      LET numFeatures == Len(featureVector)
          PerFeature(i) ==
            LET zScoreAnomaly == Min(Unit, ZScore(baseline, featureVector, i) \div 3)
                q1 == baseline.quantiles[i].q1
                q3 == baseline.quantiles[i].q3
                iqr == q3 - q1
                \* x < q1 - 1.5 * iqr  or  x > q3 + 1.5 * iqr, doubled
                outside == \/ 2 * featureVector[i] < 2 * q1 - 3 * iqr
                           \/ 2 * featureVector[i] > 2 * q3 + 3 * iqr
                iqrAnomaly == IF outside THEN Unit ELSE 0
            IN (zScoreAnomaly * ZScoreWeight + iqrAnomaly * IqrWeight) \div Unit
      IN SumSeq([i \in 1..Min(numFeatures, Len(baseline.means)) |-> PerFeature(i)]) \div numFeatures

\* the sort with its comparison the wrong way round: a.z_score - b.z_score
RECURSIVE InsertFactorAscending(_, _)
InsertFactorAscending(sorted, f) ==
    IF sorted = <<>> THEN <<f>>
    ELSE IF Head(sorted).z_score <= f.z_score
         THEN <<Head(sorted)>> \o InsertFactorAscending(Tail(sorted), f)
         ELSE <<f>> \o sorted

\* factors.sort((a, b) => b.z_score - a.z_score): a stable insertion of f
RECURSIVE InsertFactor(_, _)
InsertFactor(sorted, f) ==
    IF sorted = <<>> THEN <<f>>
    ELSE IF Head(sorted).z_score >= f.z_score
         THEN <<Head(sorted)>> \o InsertFactor(Tail(sorted), f)
         ELSE <<f>> \o sorted

RECURSIVE SortFactors(_)
SortFactors(factors) ==
    IF factors = <<>> THEN <<>>
    ELSE InsertFactor(SortFactors(SubSeq(factors, 1, Len(factors) - 1)),
                      factors[Len(factors)])

identifyAnomalyFactors(baseline, featureVector) ==
    LET n == Min(Len(featureVector), Len(baseline.means))
        Significant(i) == baseline.stds[i] > 0 /\ ZScore(baseline, featureVector, i) > 2 * Unit
        Factor(i) ==
            [feature |-> FeatureNames[i],
             value |-> featureVector[i],
             expected_mean |-> baseline.means[i],
             z_score |-> ZScore(baseline, featureVector, i),
             deviation_type |-> IF featureVector[i] > baseline.means[i]
                                THEN "above_normal" ELSE "below_normal"]
        RECURSIVE Collect(_)
        Collect(i) ==
            IF i > n THEN <<>>
            ELSE (IF Significant(i) THEN <<Factor(i)>> ELSE <<>>) \o Collect(i + 1)
    IN SortFactors(Collect(1))

calculateBaselineDeviation(baseline, featureVector) ==
    IF Len(baseline.means) = 0 THEN [overall |-> 0, per_feature |-> <<>>]
    ELSE
      LET n == Min(Len(featureVector), Len(baseline.means))
          Deviation(i) == ZScore(baseline, featureVector, i)
          perFeature == [i \in 1..n |-> Deviation(i)]
      IN [overall |-> SumSeq(perFeature) \div Len(featureVector),
          per_feature |-> perFeature,
          max_deviation |-> CHOOSE m \in {perFeature[i] : i \in 1..n} :
                                \A i \in 1..n : perFeature[i] <= m]

\* (isolationScore * 0.7) + (statisticalScore * 0.3)
Combine(isolationScore, statisticalScore) ==
    (isolationScore * IsolationWeight + statisticalScore * StatisticalWeight) \div Unit

\* detect(features) past its readiness check
Detected(d, features) ==
    LET featureVector == prepareFeatureVector(features)
        prediction == Predict(d.isolationForest, <<featureVector>>)
    IN IF prediction.error # NoError
       THEN [error |-> prediction.error, result |-> Null]
       ELSE
         LET isolationScore == prediction.scores[1]
             statisticalScore == detectStatisticalAnomaly(d.statisticalBaseline, featureVector)
             combinedScore == Combine(isolationScore, statisticalScore)
         IN [error |-> NoError,
             result |-> [score |-> combinedScore,
                         is_anomaly |-> combinedScore > d.anomalyThreshold,
                         isolation_score |-> isolationScore,
                         statistical_score |-> statisticalScore,
                         factors |-> identifyAnomalyFactors(d.statisticalBaseline, featureVector),
                         deviation |-> calculateBaselineDeviation(d.statisticalBaseline, featureVector),
                         threshold |-> d.anomalyThreshold]]

\* detect without its readiness check
detectUnchecked(d, features) == Detected(d, features)

\* detect(features): an error thrown to the caller, or an AnomalyResult
detect(d, features) ==
    IF ~d.isModelReady THEN [error |-> NotReadyError, result |-> Null]
    ELSE Detected(d, features)

\* One entry of the results of detectBatch
BatchResult(d, featureVector, isolationScore) ==
    LET statisticalScore == detectStatisticalAnomaly(d.statisticalBaseline, featureVector)
        combinedScore == Combine(isolationScore, statisticalScore)
    IN [score |-> combinedScore,
        is_anomaly |-> combinedScore > d.anomalyThreshold,
        isolation_score |-> isolationScore,
        statistical_score |-> statisticalScore]

\* detectBatch giving every row the isolation score of the first
detectBatchFirstScore(d, featuresArray) ==
    IF ~d.isModelReady THEN [error |-> NotReadyError, result |-> Null]
    ELSE
      LET featureVectors == [i \in 1..Len(featuresArray) |-> prepareFeatureVector(featuresArray[i])]
          prediction == Predict(d.isolationForest, featureVectors)
      IN IF prediction.error # NoError
         THEN [error |-> prediction.error, result |-> Null]
         ELSE [error |-> NoError,
               result |-> [i \in 1..Len(featureVectors) |->
                             BatchResult(d, featureVectors[i], prediction.scores[1])]]

\* detectBatch(featuresArray): an error thrown to the caller, or one
\* result per input
detectBatch(d, featuresArray) ==
    IF ~d.isModelReady THEN [error |-> NotReadyError, result |-> Null]
    ELSE
      LET featureVectors == [i \in 1..Len(featuresArray) |-> prepareFeatureVector(featuresArray[i])]
          prediction == Predict(d.isolationForest, featureVectors)
      IN IF prediction.error # NoError
         THEN [error |-> prediction.error, result |-> Null]
         ELSE [error |-> NoError,
               result |-> [i \in 1..Len(featureVectors) |->
                             BatchResult(d, featureVectors[i], prediction.scores[i])]]

----------------------------------------------------------------------------
(* class AnomalyDetector: the model's life cycle *)

AnomalyDetector ==
    [isolationForest |-> IsolationForest(NumTrees, SubsampleSize),
     statisticalBaseline |-> [means |-> <<>>, stds |-> <<>>, quantiles |-> <<>>],
     trainingData |-> <<>>,
     isModelReady |-> FALSE,
     lastTrainingTime |-> Null,
     anomalyThreshold |-> AnomalyThreshold]

\* Retrained leaving the baseline as it was
RetrainedForestOnly(d, t, rnd) ==
    LET trainingMatrix == VectorsOf(d.trainingData)
        fitted == [d EXCEPT !.isolationForest = Fit(@, trainingMatrix, rnd)]
    IN [fitted EXCEPT !.isModelReady = TRUE, !.lastTrainingTime = t]

\* trainModel() past its check, calculateStatisticalBaseline pushing on the
\* arrays of the previous baseline without emptying them first
RetrainedKeepsBaseline(d, t, rnd) ==
    LET trainingMatrix == VectorsOf(d.trainingData)
        fitted == [d EXCEPT !.isolationForest = Fit(@, trainingMatrix, rnd)]
        computed == calculateStatisticalBaseline(trainingMatrix)
        based == [fitted EXCEPT
                    !.statisticalBaseline =
                        [means |-> d.statisticalBaseline.means \o computed.means,
                         stds |-> d.statisticalBaseline.stds \o computed.stds,
                         quantiles |-> d.statisticalBaseline.quantiles \o computed.quantiles]]
    IN [based EXCEPT !.isModelReady = TRUE, !.lastTrainingTime = t]

\* trainModel() past its check, leaving lastTrainingTime as it was
RetrainedWithoutTimestamp(d, t, rnd) ==
    LET trainingMatrix == VectorsOf(d.trainingData)
        fitted == [d EXCEPT !.isolationForest = Fit(@, trainingMatrix, rnd)]
        based == [fitted EXCEPT
                    !.statisticalBaseline = calculateStatisticalBaseline(trainingMatrix)]
    IN [based EXCEPT !.isModelReady = TRUE]

\* trainModel() past its check, flipping isModelReady where it is to be set
RetrainedFlipsReady(d, t, rnd) ==
    LET trainingMatrix == VectorsOf(d.trainingData)
        fitted == [d EXCEPT !.isolationForest = Fit(@, trainingMatrix, rnd)]
        based == [fitted EXCEPT
                    !.statisticalBaseline = calculateStatisticalBaseline(trainingMatrix)]
    IN [based EXCEPT !.isModelReady = ~d.isModelReady, !.lastTrainingTime = t]

\* trainModel() past its check: the forest is fitted, the baseline is
\* recomputed from the same matrix, the detector is marked ready
Retrained(d, t, rnd) ==
    LET trainingMatrix == VectorsOf(d.trainingData)
        fitted == [d EXCEPT !.isolationForest = Fit(@, trainingMatrix, rnd)]
        based == [fitted EXCEPT
                    !.statisticalBaseline = calculateStatisticalBaseline(trainingMatrix)]
    IN [based EXCEPT !.isModelReady = TRUE, !.lastTrainingTime = t]

\* trainModel rejecting a buffer of exactly 10 samples too
trainModelOffByOne(d, t, rnd) ==
    IF ArrLen(d.trainingData) <= MinTrainingSamples
    THEN [error |-> InsufficientDataError, d |-> d]
    ELSE [error |-> NoError, d |-> Retrained(d, t, rnd)]

\* trainModel marking the detector ready before its check
trainModelMarksReadyFirst(d, t, rnd) ==
    LET marked == [d EXCEPT !.isModelReady = TRUE]
    IN IF ArrLen(d.trainingData) < MinTrainingSamples
       THEN [error |-> InsufficientDataError, d |-> marked]
       ELSE [error |-> NoError, d |-> Retrained(marked, t, rnd)]

\* trainModel() at time t, rnd the outcome of fit's random choices: the
\* error it throws, and the detector it leaves
trainModel(d, t, rnd) ==
    IF ArrLen(d.trainingData) < MinTrainingSamples
    THEN [error |-> InsufficientDataError, d |-> d]
    ELSE [error |-> NoError, d |-> Retrained(d, t, rnd)]

\* generateInitialTrainingData building its samples without pushing them
generateWithoutPush(d) == d

\* generateInitialTrainingData(): 1000 "normal" and 50 "anomalous"
\* synthetic samples are pushed on the buffer
generateInitialTrainingData(d) ==
    LET normal == PushRun(d.trainingData, "synthetic_normal", NumSyntheticNormal)
    IN [d EXCEPT !.trainingData =
                    PushRun(normal, "synthetic_anomalous", NumSyntheticAnomalous)]

\* a.slice(0, k)
RECURSIVE SliceFirst(_, _)
SliceFirst(a, k) ==
    IF k <= 0 \/ a = <<>> THEN <<>>
    ELSE IF Head(a).n <= k
         THEN PushAll(<<Head(a)>>, SliceFirst(Tail(a), k - Head(a).n))
         ELSE <<[v |-> Head(a).v, n |-> k]>>

\* updateModel keeping the first 10000 samples instead of the last
updateModelKeepsOldest(d, newData, t, rnd) ==
    LET pushed == PushAll(d.trainingData, newData)
        kept == IF ArrLen(pushed) > MaxTrainingSamples
                THEN SliceFirst(pushed, MaxTrainingSamples)
                ELSE pushed
        buffered == [d EXCEPT !.trainingData = kept]
    IN IF ArrLen(newData) > RetrainBatchSize
       THEN LET trained == trainModel(buffered, t, rnd)
            IN [d |-> trained.d, retrain |-> TRUE, caught |-> trained.error]
       ELSE [d |-> buffered, retrain |-> FALSE, caught |-> NoError]

\* updateModel retraining on a batch of exactly 100 samples too
updateModelAtLeast(d, newData, t, rnd) ==
    LET pushed == PushAll(d.trainingData, newData)
        kept == IF ArrLen(pushed) > MaxTrainingSamples
                THEN SliceLast(pushed, MaxTrainingSamples)
                ELSE pushed
        buffered == [d EXCEPT !.trainingData = kept]
    IN IF ArrLen(newData) >= RetrainBatchSize
       THEN LET trained == trainModel(buffered, t, rnd)
            IN [d |-> trained.d, retrain |-> TRUE, caught |-> trained.error]
       ELSE [d |-> buffered, retrain |-> FALSE, caught |-> NoError]

\* updateModel retraining before it has buffered the batch
updateModelTrainsFirst(d, newData, t, rnd) ==
    LET trained == IF ArrLen(newData) > RetrainBatchSize
                   THEN trainModel(d, t, rnd)
                   ELSE [error |-> NoError, d |-> d]
        pushed == PushAll(trained.d.trainingData, newData)
        kept == IF ArrLen(pushed) > MaxTrainingSamples
                THEN SliceLast(pushed, MaxTrainingSamples)
                ELSE pushed
    IN [d |-> [trained.d EXCEPT !.trainingData = kept],
        retrain |-> ArrLen(newData) > RetrainBatchSize,
        caught |-> trained.error]

\* updateModel(newData) at time t: the detector it leaves, whether it
\* called trainModel(), and the error it caught and logged
updateModel(d, newData, t, rnd) ==
    LET pushed == PushAll(d.trainingData, newData)
        kept == IF ArrLen(pushed) > MaxTrainingSamples
                THEN SliceLast(pushed, MaxTrainingSamples)
                ELSE pushed
        buffered == [d EXCEPT !.trainingData = kept]
    IN IF ArrLen(newData) > RetrainBatchSize
       THEN LET trained == trainModel(buffered, t, rnd)
            IN [d |-> trained.d, retrain |-> TRUE, caught |-> trained.error]
       ELSE [d |-> buffered, retrain |-> FALSE, caught |-> NoError]

isReady(d) == d.isModelReady

----------------------------------------------------------------------------
(* class IsolationForest, tree by tree.  Path lengths are in 1/10000; a  *)
(* score is in thousandths, truncated.  Matrix entries are integers, so a  *)
(* split value stands for the least integer not below it.                  *)

Scale == 10000             \* the path length 1.0
EulerGamma == 5772         \* 0.5772156649
Ln2 == 6931                \* Math.log(2)

\* the e with 2^e <= x < 2^(e+1), x >= 1
RECURSIVE Log2Floor(_)
Log2Floor(x) == IF x < 2 THEN 0 ELSE 1 + Log2Floor(x \div 2)

\* Math.ceil(Math.log2(x)), x >= 1
CeilLog2(x) == IF x <= 1 THEN 0 ELSE 1 + Log2Floor(x - 1)

\* Math.log(x) for an integer x >= 1: x = 2^e * m with m in [1, 2), and
\* ln(m) = 2 * atanh((m - 1) / (m + 1)) by its series
Ln(x) ==
    LET e == Log2Floor(x)
        z == ((x - 2^e) * Scale) \div (x + 2^e)
        z2 == (z * z) \div Scale
        z3 == (z * z2) \div Scale
        z5 == (z3 * z2) \div Scale
        z7 == (z5 * z2) \div Scale
        z9 == (z7 * z2) \div Scale
    IN e * Ln2 + 2 * (z + z3 \div 3 + z5 \div 5 + z7 \div 7 + z9 \div 9)

\* Math.exp(-y) for 0 <= y < 1, by its series
ExpNeg(y) ==
    LET t1 == y
        t2 == (t1 * y) \div (2 * Scale)
        t3 == (t2 * y) \div (3 * Scale)
        t4 == (t3 * y) \div (4 * Scale)
        t5 == (t4 * y) \div (5 * Scale)
        t6 == (t5 * y) \div (6 * Scale)
        t7 == (t6 * y) \div (7 * Scale)
    IN Scale - t1 + t2 - t3 + t4 - t5 + t6 - t7

\* Math.pow(2, -r), in thousandths: r is its whole part (the floor) and a
\* fraction in [0, 1)
Pow2Neg(r) ==
    LET whole == r \div Scale
        fraction == r % Scale
        power == IF whole >= 0
                 THEN ExpNeg((fraction * Ln2) \div Scale) \div 2^whole
                 ELSE ExpNeg((fraction * Ln2) \div Scale) * 2^(-whole)
    IN power \div (Scale \div Unit)

\* c(n): the average path length of an unsuccessful search among n items
c(n) ==
    IF n <= 1 THEN 0
    ELSE 2 * (Ln(n - 1) + EulerGamma) - (2 * (n - 1) * Scale) \div n

\* new IsolationForest(options): this.trees is an array of trees, kept as
\* runs of equal trees
NewIsolationForest(numTrees, subsampleSize) ==
    [numTrees |-> numTrees, subsampleSize |-> subsampleSize,
     maxDepth |-> CeilLog2(subsampleSize), trees |-> <<>>, trained |-> FALSE]

Leaf(size, depth) == [type |-> "leaf", size |-> size, depth |-> depth]

\* Math.min(...column) and Math.max(...column) of a non-empty matrix
RECURSIVE ColumnMin(_, _)
ColumnMin(X, feature) ==
    IF Len(X) = 1 THEN Head(X).v[feature]
    ELSE Min(Head(X).v[feature], ColumnMin(Tail(X), feature))

RECURSIVE ColumnMax(_, _)
ColumnMax(X, feature) ==
    IF Len(X) = 1 THEN Head(X).v[feature]
    ELSE LET rest == ColumnMax(Tail(X), feature)
         IN IF Head(X).v[feature] > rest THEN Head(X).v[feature] ELSE rest

\* X.selection(indices, all columns): the rows on one side of the split
RECURSIVE Selection(_, _, _, _)
Selection(X, feature, splitValue, left) ==
    IF X = <<>> THEN <<>>
    ELSE LET rest == Selection(Tail(X), feature, splitValue, left)
         IN IF (Head(X).v[feature] < splitValue) = left
            THEN PushAll(<<Head(X)>>, rest)
            ELSE rest

\* buildTree splitting a node that has reached maxDepth
RECURSIVE buildTreePastMaxDepth(_, _, _, _)
buildTreePastMaxDepth(X, depth, maxDepth, rnd) ==
    LET n == ArrLen(X)
    IN IF depth > maxDepth \/ n <= 1 THEN Leaf(n, depth)
       ELSE LET feature == rnd.features[(depth % Len(rnd.features)) + 1]
                minVal == ColumnMin(X, feature)
                maxVal == ColumnMax(X, feature)
            IN IF minVal = maxVal THEN Leaf(n, depth)
               ELSE LET splitValue == minVal + (rnd.split * (maxVal - minVal) + 99) \div 100
                        leftData == Selection(X, feature, splitValue, TRUE)
                        rightData == Selection(X, feature, splitValue, FALSE)
                    IN IF leftData = <<>> \/ rightData = <<>> THEN Leaf(n, depth)
                       ELSE [type |-> "internal",
                             feature |-> feature,
                             splitValue |-> splitValue,
                             left |-> buildTreePastMaxDepth(leftData, depth + 1, maxDepth, rnd),
                             right |-> buildTreePastMaxDepth(rightData, depth + 1, maxDepth, rnd)]

\* buildTree(X, depth).  rnd gives the draws of Math.random(): the feature
\* taken at each depth and where in [min, max) the split value falls.
RECURSIVE buildTree(_, _, _, _)
buildTree(X, depth, maxDepth, rnd) ==
    LET n == ArrLen(X)
    IN IF depth >= maxDepth \/ n <= 1 THEN Leaf(n, depth)
       ELSE LET feature == rnd.features[(depth % Len(rnd.features)) + 1]
                minVal == ColumnMin(X, feature)
                maxVal == ColumnMax(X, feature)
            IN IF minVal = maxVal THEN Leaf(n, depth)
               ELSE LET splitValue == minVal + (rnd.split * (maxVal - minVal) + 99) \div 100
                        leftData == Selection(X, feature, splitValue, TRUE)
                        rightData == Selection(X, feature, splitValue, FALSE)
                    IN IF leftData = <<>> \/ rightData = <<>> THEN Leaf(n, depth)
                       ELSE [type |-> "internal",
                             feature |-> feature,
                             splitValue |-> splitValue,
                             left |-> buildTree(leftData, depth + 1, maxDepth, rnd),
                             right |-> buildTree(rightData, depth + 1, maxDepth, rnd)]

\* randomSample(n, k) and data.selection: k rows drawn without replacement;
\* the draw takes the first k rows or the last k
randomSample(X, k, rnd) ==
    IF rnd.sample = "first" THEN SliceFirst(X, k) ELSE SliceLast(X, k)

\* the loop of fit(X): one run of trees for each run of draws
RECURSIVE BuildTrees(_, _, _)
BuildTrees(forest, X, rnds) ==
    IF rnds = <<>> THEN <<>>
    ELSE LET rnd == Head(rnds).v
             subsample == randomSample(X, Min(forest.subsampleSize, ArrLen(X)), rnd)
         IN <<[v |-> buildTree(subsample, 0, forest.maxDepth, rnd), n |-> Head(rnds).n]>>
            \o BuildTrees(forest, X, Tail(rnds))

\* fit(X), X a matrix with a row at least
fit(forest, X, rnds) ==
    [forest EXCEPT !.trees = BuildTrees(forest, X, rnds), !.trained = TRUE]

\* pathLength taking the adjustment c(size) off the depth
RECURSIVE pathLengthSubtracts(_, _, _)
pathLengthSubtracts(x, tree, depth) ==
    IF tree.type = "leaf" THEN depth * Scale - c(tree.size)
    ELSE IF x[tree.feature] < tree.splitValue
         THEN pathLengthSubtracts(x, tree.left, depth + 1)
         ELSE pathLengthSubtracts(x, tree.right, depth + 1)

\* pathLength(x, tree, depth)
RECURSIVE pathLength(_, _, _)
pathLength(x, tree, depth) ==
    IF tree.type = "leaf" THEN depth * Scale + c(tree.size)
    ELSE IF x[tree.feature] < tree.splitValue
         THEN pathLength(x, tree.left, depth + 1)
         ELSE pathLength(x, tree.right, depth + 1)

\* avgPathLength += this.pathLength(x, tree), over this.trees
RECURSIVE SumPathLengths(_, _)
SumPathLengths(x, trees) ==
    IF trees = <<>> THEN 0
    ELSE Head(trees).n * pathLength(x, Head(trees).v, 0) + SumPathLengths(x, Tail(trees))

\* the score predict gives the row x
ScoreOf(forest, x) ==
    LET avgPathLength == SumPathLengths(x, forest.trees) \div forest.numTrees
    IN Pow2Neg((avgPathLength * Scale) \div c(forest.subsampleSize))

\* predict(X) for a list X of rows: an error, or one score per row
predict(forest, X) ==
    IF ~forest.trained
    THEN [error |-> NotTrainedError, scores |-> <<>>]
    ELSE [error |-> NoError, scores |-> [i \in 1..Len(X) |-> ScoreOf(forest, X[i])]]

----------------------------------------------------------------------------
(* class AIAnalysisEngine *)

DefaultBatchSize == 100          \* parseInt(process.env.BATCH_SIZE) || 100
EngineAnomalyThreshold == 700    \* parseFloat(process.env.ANOMALY_THRESHOLD) || 0.7
ClassificationThreshold == 800   \* parseFloat(process.env.CLASSIFICATION_THRESHOLD) || 0.8

\* A number that may be missing: None, or Some(x)
None == <<>>
Some(x) == <<x>>

\* process.env: BATCH_SIZE is the integer parseInt makes of the variable,
\* None when it is unset or no number
NoEnv == [BATCH_SIZE |-> None]

\* x || y for a number x that may be missing
OrElse(x, y) == IF x = None THEN y ELSE IF x[1] = 0 THEN y ELSE x[1]

\* new AIAnalysisEngine(modelManager, metricsCollector); intervals counts
\* the timers setInterval has started, pc is where initialize() stands
AIAnalysisEngine(env) ==
    [anomalyThreshold |-> EngineAnomalyThreshold,
     classificationThreshold |-> ClassificationThreshold,
     batchSize |-> OrElse(env.BATCH_SIZE, DefaultBatchSize),
     isReady |-> FALSE,
     processingQueue |-> <<>>,
     batchBuffer |-> <<>>,
     intervals |-> 0,
     pc |-> "idle"]

\* Nothing handed to the collaborators yet: the records submitted for
\* analysis, the slices detectBatch was invoked over, the errors recorded
\* by metricsCollector.recordError, the analyses returned
NoTrace == [submitted |-> <<>>, batches |-> <<>>, errors |-> <<>>, analyses |-> <<>>]

\* Math.round(x / d) for x >= 0
Round(x, d) == (2 * x + d) \div (2 * d)

\* A record as the engine reads it: data.data.id and .severity_level (Null
\* when missing), .confidence_score and .last_seen (numbers that may be
\* missing, last_seen an hour of the clock); kind names the features the
\* extractor makes of it
Record(id, severity, confidence, lastSeen, kind) ==
    [id |-> id, severity_level |-> severity, confidence_score |-> confidence,
     last_seen |-> lastSeen, kind |-> kind]

\* featureExtractor.extractFeatures(data)
extractFeatures(data) == Sample(data.kind)

\* x || y for a string x that may be missing
StringOrElse(x, y) == IF x = Null THEN y ELSE x

\* mapSeverityToScore with its table upside down
mapSeverityToScoreInverted(severity) ==
    CASE severity = "critical" -> 200
      [] severity = "high" -> 400
      [] severity = "medium" -> 600
      [] severity = "low" -> 800
      [] severity = "info" -> 1000
      [] OTHER -> 600

\* mapSeverityToScore(severity), in thousandths
mapSeverityToScore(severity) ==
    CASE severity = "critical" -> 1000
      [] severity = "high" -> 800
      [] severity = "medium" -> 600
      [] severity = "low" -> 400
      [] severity = "info" -> 200
      [] OTHER -> 600

\* mapScoreToRiskLevel(score), score in 1/100000
mapScoreToRiskLevel(score) ==
    IF score >= 80000 THEN "critical"
    ELSE IF score >= 60000 THEN "high"
    ELSE IF score >= 40000 THEN "medium"
    ELSE "low"

\* calculateTemporalRelevance with the day counted as twelve hours
calculateTemporalRelevanceHalfDay(lastSeen, t) ==
    IF lastSeen = None THEN 500
    ELSE LET hoursSince == t - lastSeen[1]
         IN IF hoursSince <= 1 THEN 1000
            ELSE IF hoursSince <= 12 THEN 800
            ELSE IF hoursSince <= 168 THEN 600
            ELSE 400

\* calculateTemporalRelevance(lastSeen) when Date.now() is t, in thousandths
calculateTemporalRelevance(lastSeen, t) ==
    IF lastSeen = None THEN 500
    ELSE LET hoursSince == t - lastSeen[1]
         IN IF hoursSince <= 1 THEN 1000
            ELSE IF hoursSince <= 24 THEN 800
            ELSE IF hoursSince <= 168 THEN 600
            ELSE 400

\* threatTypeMultiplier[type] || 1.0, in tenths
threatTypeMultiplier(type) ==
    CASE type = "malware" -> 12
      [] type = "ransomware" -> 15
      [] type = "apt" -> 13
      [] type = "phishing" -> 11
      [] type = "botnet" -> 12
      [] OTHER -> 10

\* calculateMitigationPriority without its cap
calculateMitigationPriorityUncapped(riskScore, classification) ==
    LET basePriority == Round(riskScore, 10000)
        multiplier == threatTypeMultiplier(classification.threat_type)
    IN Round(basePriority * multiplier, 10)

\* calculateMitigationPriority(riskScore, classification), riskScore the
\* weighted score in 1/100000
calculateMitigationPriority(riskScore, classification) ==
    LET basePriority == Round(riskScore, 10000)
        multiplier == threatTypeMultiplier(classification.threat_type)
    IN Min(10, Round(basePriority * multiplier, 10))

RECURSIVE MaxOf(_)
MaxOf(values) ==
    IF Len(values) = 1 THEN values[1]
    ELSE LET rest == MaxOf(Tail(values)) IN IF values[1] > rest THEN values[1] ELSE rest

RECURSIVE MinOf(_)
MinOf(values) ==
    IF Len(values) = 1 THEN values[1] ELSE Min(values[1], MinOf(Tail(values)))

\* the squares of n * (value - mean), summed
RECURSIVE SumSquaredDiffs(_, _, _)
SumSquaredDiffs(values, n, total) ==
    IF values = <<>> THEN 0
    ELSE (n * Head(values) - total) * (n * Head(values) - total)
         + SumSquaredDiffs(Tail(values), n, total)

\* calculateVariance(values): values in thousandths, the variance in
\* millionths.  Values 2.7 or more apart have a variance of 0.9 at least,
\* which the one use of the variance, max(0.1, 1 - variance), does not tell
\* from 1: it is given as 1 then.
calculateVariance(values) ==
    LET n == Len(values)
        total == SumSeq(values)
    IN IF MaxOf(values) - MinOf(values) >= 2700 THEN 1000000
       ELSE SumSquaredDiffs(values, n, total) \div (n * n * n)

\* calculateRiskAssessment(data, anomaly, classification, behavioral) when
\* Date.now() is t.  Factors are in thousandths, weights in hundredths, the
\* weighted score in 1/100000.
calculateRiskAssessment(data, anomaly, classification, behavioral, t) ==
    LET severityScore == mapSeverityToScore(StringOrElse(data.severity_level, "medium"))
        confidenceScore == OrElse(data.confidence_score, 50) * 10
        anomalyScore == IF anomaly.is_anomaly THEN anomaly.anomaly_score ELSE 300
        behavioralScore == OrElse(behavioral.deviation_score, 500)
        temporalScore == calculateTemporalRelevance(data.last_seen, t)
        assetCriticalityScore == 700
        weightedScore == severityScore * 25 + confidenceScore * 20 + anomalyScore * 20
                         + behavioralScore * 15 + temporalScore * 10
                         + assetCriticalityScore * 10
    IN [risk_score |-> Round(weightedScore, 1000),
        risk_level |-> mapScoreToRiskLevel(weightedScore),
        contributing_factors |->
            [severity |-> severityScore, confidence |-> confidenceScore,
             anomaly |-> anomalyScore, behavioral |-> behavioralScore,
             temporal |-> temporalScore, asset_criticality |-> assetCriticalityScore],
        mitigation_priority |-> calculateMitigationPriority(weightedScore, classification)]

\* calculateCompositeScore(analysis).  The classifier's confidence is taken
\* as it comes: a confidence of 90 is the score 90.0, 90000 thousandths.
calculateCompositeScore(analysis) ==
    LET riskScore == analysis.risk_assessment.risk_score * 10
        anomalyScore == analysis.anomaly_detection.anomaly_score
        classificationScore == analysis.threat_classification.confidence * 1000
        behavioralScore == OrElse(analysis.behavioral_analysis.deviation_score, 500)
        compositeScore == riskScore * 40 + anomalyScore * 25
                          + classificationScore * 25 + behavioralScore * 10
        modelScores == <<riskScore, anomalyScore, classificationScore, behavioralScore>>
        variance == calculateVariance(modelScores)
        confidence == IF 1000000 - variance > 100000 THEN 1000000 - variance ELSE 100000
    IN [score |-> Round(compositeScore, 1000), confidence |-> Round(confidence, 10000)]

Recommendation(priority, action, automated) ==
    [priority |-> priority, action |-> action, automated |-> automated]

\* priorityOrder[priority]
priorityOrder(priority) ==
    CASE priority = "critical" -> 0
      [] priority = "high" -> 1
      [] priority = "medium" -> 2
      [] priority = "low" -> 3

\* the sort with its comparison the wrong way round
RECURSIVE InsertRecommendationDescending(_, _)
InsertRecommendationDescending(sorted, r) ==
    IF sorted = <<>> THEN <<r>>
    ELSE IF priorityOrder(r.priority) - priorityOrder(Head(sorted).priority) <= 0
         THEN <<Head(sorted)>> \o InsertRecommendationDescending(Tail(sorted), r)
         ELSE <<r>> \o sorted

\* r put behind the entries of a sorted list that do not come after it
RECURSIVE InsertRecommendation(_, _)
InsertRecommendation(sorted, r) ==
    IF sorted = <<>> THEN <<r>>
    ELSE IF priorityOrder(Head(sorted).priority) - priorityOrder(r.priority) <= 0
         THEN <<Head(sorted)>> \o InsertRecommendation(Tail(sorted), r)
         ELSE <<r>> \o sorted

\* recommendations.sort((a, b) => priorityOrder[a.priority] - priorityOrder[b.priority]):
\* the sort is stable
RECURSIVE SortRecommendations(_)
SortRecommendations(recommendations) ==
    IF recommendations = <<>> THEN <<>>
    ELSE InsertRecommendation(
             SortRecommendations(SubSeq(recommendations, 1, Len(recommendations) - 1)),
             recommendations[Len(recommendations)])

\* generateRecommendations(analysis)
generateRecommendations(analysis) ==
    LET riskScore == analysis.risk_assessment.risk_score
        isAnomaly == analysis.anomaly_detection.is_anomaly
        threatType == analysis.threat_classification.threat_type
        highRisk == IF riskScore >= 80
                    THEN << Recommendation("critical", "immediate_investigation", FALSE),
                            Recommendation("critical", "isolate_affected_assets", TRUE) >>
                    ELSE <<>>
        anomalous == IF isAnomaly
                     THEN << Recommendation("high", "behavioral_analysis", FALSE) >>
                     ELSE <<>>
        byType == IF threatType = "malware"
                  THEN << Recommendation("high", "antivirus_scan", TRUE) >>
                  ELSE IF threatType = "phishing"
                       THEN << Recommendation("medium", "user_awareness", TRUE) >>
                       ELSE <<>>
        general == << Recommendation("low", "update_threat_intelligence", TRUE) >>
    IN SortRecommendations(highRisk \o anomalous \o byType \o general)

EngineNotReadyError == "AI Analysis Engine not ready"

\* analysis.anomaly_detection of performAnalysis
AnomalyDetection(eng, anomalyResult) ==
    [is_anomaly |-> anomalyResult.score > eng.anomalyThreshold,
     anomaly_score |-> anomalyResult.score,
     anomaly_factors |-> anomalyResult.factors,
     baseline_deviation |-> anomalyResult.deviation]

\* analysis.threat_classification of performAnalysis
ThreatClassification(classificationResult) ==
    [threat_type |-> classificationResult.type,
     confidence |-> classificationResult.confidence]

\* analysis.behavioral_analysis of performAnalysis
BehavioralAnalysis(behavioralResult) ==
    [deviation_score |-> behavioralResult.deviationScore]

\* performAnalysis(data, features) from the results of its three awaits,
\* when Date.now() is t
performAnalysis(eng, data, anomalyResult, classificationResult, behavioralResult, t) ==
    LET detected == AnomalyDetection(eng, anomalyResult)
        classified == ThreatClassification(classificationResult)
        behaved == BehavioralAnalysis(behavioralResult)
        assessed == [threat_id |-> StringOrElse(data.id, "analysis"),
                     anomaly_detection |-> detected,
                     threat_classification |-> classified,
                     behavioral_analysis |-> behaved,
                     risk_assessment |->
                         calculateRiskAssessment(data, detected, classified, behaved, t)]
        compositeResult == calculateCompositeScore(assessed)
        scored == [threat_id |-> assessed.threat_id,
                   anomaly_detection |-> detected,
                   threat_classification |-> classified,
                   behavioral_analysis |-> behaved,
                   risk_assessment |-> assessed.risk_assessment,
                   composite_score |-> compositeResult.score,
                   confidence_level |-> compositeResult.confidence]
    IN [threat_id |-> scored.threat_id,
        anomaly_detection |-> detected,
        threat_classification |-> classified,
        behavioral_analysis |-> behaved,
        risk_assessment |-> scored.risk_assessment,
        composite_score |-> scored.composite_score,
        confidence_level |-> scored.confidence_level,
        recommendations |-> generateRecommendations(scored)]

\* this.batchBuffer.splice(0, this.batchSize): what is taken
SpliceTaken(buffer, count) == SubSeq(buffer, 1, Min(count, Len(buffer)))

\* this.batchBuffer.splice(0, this.batchSize): what is left
SpliceLeft(buffer, count) == SubSeq(buffer, Min(count, Len(buffer)) + 1, Len(buffer))

\* processBatch that puts a failed batch back in front of the buffer
processBatchRetries(eng, d) ==
    IF Len(eng.batchBuffer) = 0
    THEN [engine |-> eng, batch |-> <<>>, caught |-> NoError, error |-> NoError]
    ELSE LET batch == SpliceTaken(eng.batchBuffer, eng.batchSize)
             batchFeatures == [i \in 1..Len(batch) |-> extractFeatures(batch[i])]
             outcome == detectBatch(d, batchFeatures)
         IN [engine |-> IF outcome.error = NoError
                        THEN [eng EXCEPT !.batchBuffer = SpliceLeft(@, eng.batchSize)]
                        ELSE eng,
             batch |-> batch,
             caught |-> outcome.error,
             error |-> NoError]

\* processBatch() on the detector d: the engine it leaves, the slice it
\* took (empty when it returned at once), the error its catch block caught
\* and the error it threw to its caller
processBatch(eng, d) ==
    IF Len(eng.batchBuffer) = 0
    THEN [engine |-> eng, batch |-> <<>>, caught |-> NoError, error |-> NoError]
    ELSE LET batch == SpliceTaken(eng.batchBuffer, eng.batchSize)
             batchFeatures == [i \in 1..Len(batch) |-> extractFeatures(batch[i])]
             outcome == detectBatch(d, batchFeatures)
         IN [engine |-> [eng EXCEPT !.batchBuffer = SpliceLeft(@, eng.batchSize)],
             batch |-> batch,
             caught |-> outcome.error,
             error |-> NoError]

\* what a processBatch() call adds to the trace
Batched(tr, processed) ==
    IF processed.batch = <<>> THEN tr
    ELSE [tr EXCEPT !.batches = Append(@, processed.batch),
                    !.errors = IF processed.caught = NoError THEN @
                               ELSE Append(@, <<"batch_processing", processed.caught>>)]

----------------------------------------------------------------------------
(* The state machine *)

Tasks == 1..MaxInit

Call(op, arg, error, result) == [op |-> op, arg |-> arg, error |-> error, result |-> result]

Init ==
    /\ detector = AnomalyDetector
    /\ pc = [t \in Tasks |-> "idle"]
    /\ now = 0
    /\ calls = 0
    /\ pending = 0
    /\ last = Call("new", Null, NoError, Null)
    /\ iforest = NewIsolationForest(NumTrees, SubsampleSize)
    /\ engine = AIAnalysisEngine(NoEnv)
    /\ inflight = None
    /\ clock = 0
    /\ trace = NoTrace

\* initialize(), up to its first await: loadModel() is a placeholder
InitializeLoad(t) ==
    /\ pc[t] = "idle"
    /\ \A u \in Tasks : u < t => pc[u] # "idle"   \* calls are numbered in order
    /\ pc' = [pc EXCEPT ![t] = "loaded"]
    /\ last' = Call("initialize", t, NoError, "loadModel")
    /\ UNCHANGED <<detector, now, calls, pending>>
    /\ UNCHANGED <<forestVars, engineVars>>

\* initialize(), resumed after loadModel(): a ready detector is left alone,
\* any other gets the synthetic samples
InitializeGenerate(t) ==
    /\ pc[t] = "loaded"
    /\ IF ~detector.isModelReady
       THEN /\ detector' = generateInitialTrainingData(detector)
            /\ pc' = [pc EXCEPT ![t] = "generated"]
            /\ last' = Call("initialize", t, NoError, "generateInitialTrainingData")
       ELSE /\ detector' = detector
            /\ pc' = [pc EXCEPT ![t] = "done"]
            /\ last' = Call("initialize", t, NoError, "return")
    /\ UNCHANGED <<now, calls, pending>>
    /\ UNCHANGED <<forestVars, engineVars>>

\* initialize(), resumed after generateInitialTrainingData(): trainModel()
InitializeTrain(t, rnd) ==
    /\ pc[t] = "generated"
    /\ now < MaxClock
    /\ LET trained == trainModel(detector, now + 1, rnd)
       IN /\ detector' = trained.d
          /\ pc' = [pc EXCEPT ![t] = IF trained.error = NoError THEN "trained" ELSE "failed"]
          /\ last' = Call("initialize", t, trained.error, "trainModel")
          /\ now' = IF trained.error = NoError THEN now + 1 ELSE now
          /\ pending' = IF trained.error = NoError THEN 0 ELSE pending
    /\ UNCHANGED calls
    /\ UNCHANGED <<forestVars, engineVars>>

\* initialize(), resumed after trainModel(): it returns
InitializeReturn(t) ==
    /\ pc[t] = "trained"
    /\ pc' = [pc EXCEPT ![t] = "done"]
    /\ last' = Call("initialize", t, NoError, "return")
    /\ UNCHANGED <<detector, now, calls, pending>>
    /\ UNCHANGED <<forestVars, engineVars>>

\* a call of trainModel()
TrainModel(rnd) ==
    /\ ArrLen(detector.trainingData) >= MinTrainingSamples => now < MaxClock
    /\ LET trained == trainModel(detector, now + 1, rnd)
       IN /\ detector' = trained.d
          /\ last' = Call("trainModel", Null, trained.error, Null)
          /\ now' = IF trained.error = NoError THEN now + 1 ELSE now
          /\ pending' = IF trained.error = NoError THEN 0 ELSE pending
    /\ UNCHANGED <<pc, calls>>
    /\ UNCHANGED <<forestVars, engineVars>>

\* a call of updateModel(newData)
UpdateModel(newData, rnd) ==
    /\ ArrLen(newData) > RetrainBatchSize => now < MaxClock
    /\ LET updated == updateModel(detector, newData, now + 1, rnd)
       IN /\ detector' = updated.d
          /\ last' = Call("updateModel", newData, updated.caught, updated.retrain)
          /\ now' = IF updated.retrain /\ updated.caught = NoError THEN now + 1 ELSE now
          /\ pending' = IF updated.retrain /\ updated.caught = NoError
                        THEN 0 ELSE pending + ArrLen(newData)
    /\ calls' = calls + 1
    /\ UNCHANGED pc
    /\ UNCHANGED <<forestVars, engineVars>>

\* a call of detect(features)
Detect(kind) ==
    /\ LET outcome == detect(detector, Sample(kind))
       IN last' = Call("detect", kind, outcome.error, outcome.result)
    /\ UNCHANGED <<detector, pc, now, calls, pending>>
    /\ UNCHANGED <<forestVars, engineVars>>

\* a call of detectBatch(featuresArray)
DetectBatch(kinds) ==
    /\ LET outcome == detectBatch(detector, [i \in 1..Len(kinds) |-> Sample(kinds[i])])
       IN last' = Call("detectBatch", kinds, outcome.error, outcome.result)
    /\ UNCHANGED <<detector, pc, now, calls, pending>>
    /\ UNCHANGED <<forestVars, engineVars>>

\* The life cycle: one initialize(), and trainModel() and updateModel()
\* calls, fit's random choices falling one way
OneOutcome == CHOOSE rnd \in ScoreTables : rnd[VectorOf("odd")] > rnd[VectorOf("typical")]

Next ==
    \/ InitializeLoad(1)
    \/ InitializeGenerate(1)
    \/ InitializeTrain(1, OneOutcome)
    \/ InitializeReturn(1)
    \/ TrainModel(OneOutcome)
    \/ calls < MaxCalls /\ \E newData \in NewDataInputs : UpdateModel(newData, OneOutcome)

Spec == Init /\ [][Next]_vars

\* Inference calls between the calls of the life cycle, fit's random
\* choices falling either way
ServingInputs == { <<[v |-> "typical", n |-> 60], [v |-> "sparse", n |-> 41]>> }

NextServing ==
    \/ InitializeLoad(1)
    \/ InitializeGenerate(1)
    \/ \E rnd \in ScoreTables : InitializeTrain(1, rnd)
    \/ InitializeReturn(1)
    \/ \E rnd \in ScoreTables : TrainModel(rnd)
    \/ calls < MaxCalls /\ \E newData \in ServingInputs, rnd \in ScoreTables : UpdateModel(newData, rnd)
    \/ \E kind \in DetectKinds : Detect(kind)
    \/ \E kinds \in BatchInputs : DetectBatch(kinds)

SpecServing == Init /\ [][NextServing]_vars

\* Two initialize() calls on one detector, each suspended at its awaits
\* while the other runs, with detect() calls in between
NextOverlap ==
    \/ \E t \in Tasks : InitializeLoad(t)
    \/ \E t \in Tasks : InitializeGenerate(t)
    \/ \E t \in Tasks, rnd \in ScoreTables : InitializeTrain(t, rnd)
    \/ \E t \in Tasks : InitializeReturn(t)
    \/ \E kind \in DetectKinds : Detect(kind)

SpecOverlap == Init /\ [][NextOverlap]_vars

\* The buffer filled by batches of 100 samples, which start no training
\* pass, around one initialize()
FillInputs == { <<[v |-> "sparse", n |-> 100]>> }

NextFill ==
    \/ InitializeLoad(1)
    \/ InitializeGenerate(1)
    \/ InitializeTrain(1, OneOutcome)
    \/ InitializeReturn(1)
    \/ calls < MaxFill /\ \E newData \in FillInputs : UpdateModel(newData, OneOutcome)

SpecFill == Init /\ [][NextFill]_vars

\* The engine

\* initialize() of the engine, to the first await of the initialize() of
\* its detector
EngineInitialize ==
    /\ engine.pc = "idle"
    /\ pc[1] = "idle"
    /\ engine' = [engine EXCEPT !.pc = "anomalyDetector"]
    /\ pc' = [pc EXCEPT ![1] = "loaded"]
    /\ last' = Call("initialize", 1, NoError, "loadModel")
    /\ UNCHANGED <<detector, now, calls, pending, forestVars, inflight, clock, trace>>

\* initialize() of the engine, resumed when that of its detector has
\* returned: the initialize() of the classifier and of the behavioral
\* analyzer are awaited
EngineAwaitCollaborators ==
    /\ engine.pc = "anomalyDetector"
    /\ pc[1] = "done"
    /\ engine' = [engine EXCEPT !.pc = "collaborators"]
    /\ last' = Call("initialize", "engine", NoError, "collaborators")
    /\ UNCHANGED <<detectorVars, forestVars, inflight, clock, trace>>

\* initialize() of the engine, resumed after its collaborators:
\* startBatchProcessing() sets the timer, and the engine is ready
EngineStart ==
    /\ engine.pc = "collaborators"
    /\ engine' = [engine EXCEPT !.pc = "done", !.intervals = @ + 1, !.isReady = TRUE]
    /\ last' = Call("initialize", "engine", NoError, "return")
    /\ UNCHANGED <<detectorVars, forestVars, inflight, clock, trace>>

\* analyzeData(data) or analyzeMessage(message), to the first await of
\* performAnalysis: detect() has run
AnalyzeStart(via, data) ==
    /\ inflight = None
    /\ LET outcome == IF engine.isReady
                      THEN detect(detector, extractFeatures(data))
                      ELSE [error |-> EngineNotReadyError, result |-> Null]
       IN IF outcome.error = NoError
          THEN /\ inflight' = Some([via |-> via, data |-> data, model |-> now,
                                    anomalyResult |-> outcome.result])
               /\ last' = Call("performAnalysis", data, NoError, "detect")
               /\ trace' = [trace EXCEPT !.submitted = Append(@, data)]
          ELSE /\ inflight' = None
               /\ last' = Call(via, data, outcome.error, Null)
               /\ trace' = [trace EXCEPT !.submitted = Append(@, data),
                                         !.errors = Append(@, <<via, outcome.error>>)]
    /\ UNCHANGED <<detectorVars, forestVars, engine, clock>>

\* performAnalysis resumed after the classifier and the behavioral
\* analyzer, whose results are the inputs; the analysis is returned
AnalyzeFinish(classificationResult, behavioralResult) ==
    /\ inflight # None
    /\ LET call == inflight[1]
           analysis == performAnalysis(engine, call.data, call.anomalyResult,
                                       classificationResult, behavioralResult, clock)
       IN /\ last' = Call(call.via, call.data, NoError, "analysis")
          /\ trace' = [trace EXCEPT !.analyses =
                          Append(@, [data |-> call.data,
                                     model |-> call.model,
                                     anomalyResult |-> call.anomalyResult,
                                     classificationResult |-> classificationResult,
                                     behavioralResult |-> behavioralResult,
                                     at |-> clock,
                                     analysis |-> analysis])]
    /\ inflight' = None
    /\ UNCHANGED <<detectorVars, forestVars, engine, clock>>

\* The errors threatClassifier.classify(features) and
\* behavioralAnalyzer.analyze(data, features) may throw
ClassifierError == "classification failed"
AnalyzerError == "behavioral analysis failed"
CollaboratorErrors == {ClassifierError, AnalyzerError}

\* performAnalysis resumed by a collaborator that throws: its catch block
\* logs and rethrows, and so does the catch block of analyzeData, which
\* records the error
AnalyzeAbort(error) ==
    /\ inflight # None
    /\ LET call == inflight[1]
       IN /\ last' = Call(call.via, call.data, error, Null)
          /\ trace' = [trace EXCEPT !.errors = Append(@, <<call.via, error>>)]
    /\ inflight' = None
    /\ UNCHANGED <<detectorVars, forestVars, engine, clock>>

\* the callback of setInterval, every 5 seconds
TimerTick ==
    /\ engine.intervals > 0
    /\ IF Len(engine.batchBuffer) >= engine.batchSize
       THEN LET processed == processBatch(engine, detector)
            IN /\ engine' = processed.engine
               /\ trace' = Batched(trace, processed)
               /\ last' = Call("tick", Null, processed.error, "batch")
       ELSE /\ last' = Call("tick", Null, NoError, "idle")
            /\ UNCHANGED <<engine, trace>>
    /\ UNCHANGED <<detectorVars, forestVars, inflight, clock>>

\* a call of processBatch()
ProcessBatch ==
    /\ LET processed == processBatch(engine, detector)
       IN /\ engine' = processed.engine
          /\ trace' = Batched(trace, processed)
          /\ last' = Call("processBatch", Null, processed.error,
                           IF processed.batch = <<>> THEN "idle" ELSE "batch")
    /\ UNCHANGED <<detectorVars, forestVars, inflight, clock>>

\* time passes
Advance(hours) ==
    /\ clock' = clock + hours
    /\ last' = Call("clock", hours, NoError, Null)
    /\ UNCHANGED <<detectorVars, forestVars, engine, inflight, trace>>

\* The results of threatClassifier.classify(features): a threat type and a
\* confidence in [0, 100]
ThreatTypes == {"malware", "ransomware", "apt", "phishing", "botnet", "benign"}
ClassifierOutputs == [type : ThreatTypes, confidence : {0, 1, 90}]

\* The results of behavioralAnalyzer.analyze(data, features): a deviation
\* score in [0, 1], in thousandths, or none
BehavioralOutputs == [deviationScore : {None, Some(0), Some(520), Some(1000)}]

\* The records analysed
AssessRecords ==
    { Record("t1", "critical", Some(90), Some(0), "typical"),
      Record("t2", "critical", Some(90), None, "odd"),
      Record("t3", "critical", Some(91), Some(0), "odd"),
      Record(Null, Null, None, None, "typical"),
      Record("t5", "info", Some(0), Some(-200), "typical"),
      Record("t6", "severe", Some(87), Some(-2), "odd"),
      Record("t7", "low", Some(100), Some(-25), "typical"),
      Record("t8", "high", Some(50), Some(-169), "odd") }

\* One analysis by an engine that initialize() has made ready
NextEngine ==
    \/ EngineInitialize
    \/ InitializeGenerate(1)
    \/ \E rnd \in ScoreTables : InitializeTrain(1, rnd)
    \/ InitializeReturn(1)
    \/ EngineAwaitCollaborators
    \/ EngineStart
    \/ trace.submitted = <<>> /\ \E data \in AssessRecords : AnalyzeStart("analyzeData", data)
    \/ \E classificationResult \in ClassifierOutputs, behavioralResult \in BehavioralOutputs :
          AnalyzeFinish(classificationResult, behavioralResult)

SpecEngine == Init /\ [][NextEngine]_vars

\* One analysis in which a collaborator may throw
NextDegraded ==
    \/ EngineInitialize
    \/ InitializeGenerate(1)
    \/ \E rnd \in ScoreTables : InitializeTrain(1, rnd)
    \/ InitializeReturn(1)
    \/ EngineAwaitCollaborators
    \/ EngineStart
    \/ trace.submitted = <<>> /\ \E data \in AssessRecords : AnalyzeStart("analyzeData", data)
    \/ \E classificationResult \in ClassifierOutputs, behavioralResult \in BehavioralOutputs :
          AnalyzeFinish(classificationResult, behavioralResult)
    \/ \E error \in CollaboratorErrors : AnalyzeAbort(error)

SpecDegraded == Init /\ [][NextDegraded]_vars

\* Analyses repeated while time passes

RepeatRecords ==
    { Record("t1", "critical", Some(90), Some(0), "typical"),
      Record(Null, Null, None, None, "typical"),
      Record("t5", "info", Some(0), Some(-200), "typical") }

RepeatClassifierOutputs ==
    { [type |-> "malware", confidence |-> 0], [type |-> "ransomware", confidence |-> 1] }

RepeatBehavioralOutputs == [deviationScore : {None, Some(520)}]

\* the hours Date.now() may move on between two steps
Hours == {12}

NextRepeat ==
    \/ EngineInitialize
    \/ InitializeGenerate(1)
    \/ \E rnd \in ScoreTables : InitializeTrain(1, rnd)
    \/ InitializeReturn(1)
    \/ EngineAwaitCollaborators
    \/ EngineStart
    \/ /\ Len(trace.submitted) < MaxAnalyses
       /\ \E data \in RepeatRecords : AnalyzeStart("analyzeData", data)
    \/ \E classificationResult \in RepeatClassifierOutputs,
          behavioralResult \in RepeatBehavioralOutputs :
          AnalyzeFinish(classificationResult, behavioralResult)
    \/ \E hours \in Hours : clock + hours <= MaxHours /\ Advance(hours)

SpecRepeat == Init /\ [][NextRepeat]_vars

\* The timer of startBatchProcessing() while records are analysed, with
\* BATCH_SIZE set in the environment

TimerEnvs == { [BATCH_SIZE |-> Some(1)], [BATCH_SIZE |-> Some(2)] }

InitTimer ==
    /\ detector = AnomalyDetector
    /\ pc = [t \in Tasks |-> "idle"]
    /\ now = 0
    /\ calls = 0
    /\ pending = 0
    /\ last = Call("new", Null, NoError, Null)
    /\ iforest = NewIsolationForest(NumTrees, SubsampleSize)
    /\ \E env \in TimerEnvs : engine = AIAnalysisEngine(env)
    /\ inflight = None
    /\ clock = 0
    /\ trace = NoTrace

TimerRecords ==
    { Record("t1", "critical", Some(90), Some(0), "typical"),
      Record("t2", "critical", Some(90), None, "odd") }

AnalyzeSubmitted ==
    /\ engine.isReady
    /\ Len(trace.submitted) < MaxAnalyses
    /\ \E data \in TimerRecords : AnalyzeStart("analyzeData", data)

AnalyzeCompleted ==
    \E classificationResult \in RepeatClassifierOutputs,
       behavioralResult \in RepeatBehavioralOutputs :
       AnalyzeFinish(classificationResult, behavioralResult)

InitializeTrained == \E rnd \in ScoreTables : InitializeTrain(1, rnd)

NextTimer ==
    \/ EngineInitialize
    \/ InitializeGenerate(1)
    \/ InitializeTrained
    \/ InitializeReturn(1)
    \/ EngineAwaitCollaborators
    \/ EngineStart
    \/ AnalyzeSubmitted
    \/ AnalyzeCompleted
    \/ TimerTick

\* what a timer callback that finds the buffer full does to the engine
TimerDrain ==
    /\ engine.intervals > 0
    /\ Len(engine.batchBuffer) >= engine.batchSize
    /\ engine' = processBatch(engine, detector).engine
    /\ trace' = Batched(trace, processBatch(engine, detector))

\* the event loop runs the timer callback every 5 seconds: a drain that is
\* due is not put off for ever
SpecTimer ==
    /\ InitTimer
    /\ [][NextTimer]_vars
    /\ WF_engineVars(TimerDrain)

\* processBatch() on a batch buffer that holds records, called directly or
\* by the timer

\* the i-th record of a buffer
BatchRecord(i) ==
    Record(ToString(i), "high", Some(50), None, IF i % 2 = 1 THEN "typical" ELSE "odd")

InitBatch ==
    /\ detector = AnomalyDetector
    /\ pc = [t \in Tasks |-> "idle"]
    /\ now = 0
    /\ calls = 0
    /\ pending = 0
    /\ last = Call("new", Null, NoError, Null)
    /\ iforest = NewIsolationForest(NumTrees, SubsampleSize)
    /\ \E env \in TimerEnvs, n \in 0..MaxBuffer :
          engine = [AIAnalysisEngine(env) EXCEPT !.batchBuffer = [i \in 1..n |-> BatchRecord(i)]]
    /\ inflight = None
    /\ clock = 0
    /\ trace = NoTrace

NextBatch ==
    \/ EngineInitialize
    \/ InitializeGenerate(1)
    \/ InitializeTrained
    \/ InitializeReturn(1)
    \/ EngineAwaitCollaborators
    \/ EngineStart
    \/ ProcessBatch
    \/ TimerTick

SpecBatch == InitBatch /\ [][NextBatch]_vars

\* The forest on its own: fit(X) and predict(X)

\* The matrices fit() is handed: fewer rows than subsampleSize, exactly as
\* many, and more
FitInputs ==
    { <<[v |-> VectorOf("typical"), n |-> 10]>>,
      <<[v |-> VectorOf("typical"), n |-> 60], [v |-> VectorOf("sparse"), n |-> 41]>>,
      <<[v |-> VectorOf("typical"), n |-> 200], [v |-> VectorOf("odd"), n |-> 56]>>,
      <<[v |-> VectorOf("typical"), n |-> 100], [v |-> VectorOf("odd"), n |-> 100],
        [v |-> VectorOf("sparse"), n |-> 100]>>,
      <<[v |-> VectorOf("synthetic_normal"), n |-> 1000],
        [v |-> VectorOf("synthetic_anomalous"), n |-> 50]>> }

\* The draws of Math.random() while one tree is built
Draw(sample, features, split) == [sample |-> sample, features |-> features, split |-> split]

\* The draws of one fit(): numTrees trees
FitDraws ==
    { <<[v |-> Draw("first", <<1>>, 50), n |-> NumTrees]>>,
      <<[v |-> Draw("last", <<2, 3>>, 1), n |-> NumTrees]>>,
      <<[v |-> Draw("first", <<9>>, 0), n |-> NumTrees]>>,
      <<[v |-> Draw("first", <<1, 2>>, 50), n |-> 60],
        [v |-> Draw("last", <<5, 1>>, 99), n |-> NumTrees - 60]>>,
      <<[v |-> Draw("last", <<1>>, 50), n |-> 1],
        [v |-> Draw("first", <<9>>, 0), n |-> NumTrees - 1]>> }

\* The rows predict() is handed
MaxRows == 2
PredictVectors ==
    { VectorOf("typical"), VectorOf("odd"), VectorOf("sparse"),
      [i \in 1..NumFeatures |-> 0], [i \in 1..NumFeatures |-> 1000] }
PredictInputs == SeqsUpTo(PredictVectors, MaxRows)

\* a call of fit(X)
ForestFit(X, rnds) ==
    /\ iforest' = fit(iforest, X, rnds)
    /\ last' = Call("fit", X, NoError, Null)
    /\ UNCHANGED <<detectorVars, engineVars>>

\* a call of predict(X)
ForestPredict(X) ==
    /\ LET prediction == predict(iforest, X)
       IN last' = Call("predict", X, prediction.error, prediction.scores)
    /\ UNCHANGED <<detectorVars, forestVars, engineVars>>

\* One tree built on its own: buildTree(X, 0) of a forest constructed with
\* the option subsampleSize, on a subsample of no more rows than that

TreeSubsampleSizes == {1, 2, 4, 8, SubsampleSize}

MaxTreeRows == 4
TreeInputs ==
    UNION { [1..k -> { [v |-> VectorOf(kind), n |-> 1] : kind \in Kinds }] : k \in 1..MaxTreeRows }

TreeDraws == [sample : {"first"}, features : {<<1>>, <<2, 3>>, <<5, 1>>}, split : {0, 1, 50}]

InitTree ==
    /\ detector = AnomalyDetector
    /\ pc = [t \in Tasks |-> "idle"]
    /\ now = 0
    /\ calls = 0
    /\ pending = 0
    /\ last = Call("new", Null, NoError, Null)
    /\ \E subsampleSize \in TreeSubsampleSizes :
          iforest = NewIsolationForest(NumTrees, subsampleSize)
    /\ engine = AIAnalysisEngine(NoEnv)
    /\ inflight = None
    /\ clock = 0
    /\ trace = NoTrace

\* a call of buildTree(X, 0)
BuildTree(X, rnd) ==
    /\ ArrLen(X) <= iforest.subsampleSize
    /\ last' = Call("buildTree", [X |-> X, rnd |-> rnd], NoError,
                    buildTree(X, 0, iforest.maxDepth, rnd))
    /\ UNCHANGED <<detectorVars, forestVars, engineVars>>

NextTree == last.op = "new" /\ \E X \in TreeInputs, rnd \in TreeDraws : BuildTree(X, rnd)

SpecTree == InitTree /\ [][NextTree]_vars

NextForest ==
    \/ \E X \in FitInputs, rnds \in FitDraws : ForestFit(X, rnds)
    \/ \E X \in PredictInputs : ForestPredict(X)

SpecForest == Init /\ [][NextForest]_vars

----------------------------------------------------------------------------
(* Properties *)

InferenceOps == {"detect", "detectBatch"}

Rows(kinds) == [i \in 1..Len(kinds) |-> VectorOf(kinds[i])]

\* C1: while no training pass has completed, a detect() or detectBatch()
\* call throws the not-ready error and returns nothing, and predict() on
\* the forest throws too: no score is given in place of the error.
C1_NotReadyIsThrown ==
    now = 0 =>
      /\ last.op \in InferenceOps => last.error = NotReadyError /\ last.result = Null
      /\ \A kinds \in BatchInputs :
            LET prediction == Predict(detector.isolationForest, Rows(kinds))
            IN prediction.error = NotTrainedError /\ prediction.scores = <<>>

\* detectBatch() is refused while initialize() stands between generating
\* the synthetic samples and training on them
C1_Witness ==
    /\ now = 0
    /\ pc[1] = "generated"
    /\ last.op = "detectBatch"
    /\ Len(last.arg) = MaxBatchLen
    /\ last.error = NotReadyError

\* C2: trainModel() throws the insufficient-data error when the buffer
\* holds fewer than 10 samples, and with 10 or more it succeeds and
\* isReady() is true afterwards.
C2_TrainingThreshold ==
    [][last'.op = "trainModel" =>
         IF ArrLen(detector.trainingData) < 10
         THEN last'.error = InsufficientDataError
         ELSE last'.error = NoError /\ isReady(detector')]_vars

\* trainModel() has succeeded on a buffer of exactly 10 samples
C2_Witness ==
    /\ last.op = "trainModel"
    /\ last.error = NoError
    /\ ArrLen(detector.trainingData) = 10
    /\ isReady(detector)

\* C3: a trainModel() rejected for insufficient data leaves the forest,
\* the baseline, the readiness flag, the timestamp and the buffer as they
\* were.
C3_RejectionChangesNothing ==
    [][last'.op = "trainModel" /\ last'.error = InsufficientDataError =>
         /\ detector'.isModelReady = detector.isModelReady
         /\ detector'.isolationForest = detector.isolationForest
         /\ detector'.statisticalBaseline = detector.statisticalBaseline
         /\ detector'.trainingData = detector.trainingData
         /\ detector' = detector]_vars

\* trainModel() has been rejected on a buffer of 9 samples
C3_Witness ==
    /\ last.op = "trainModel"
    /\ last.error = InsufficientDataError
    /\ ArrLen(detector.trainingData) = 9

\* C4: initialize() does not throw, and once it has returned the detector
\* is ready and no detect() or detectBatch() is refused as not ready.
C4_InitializeLeavesReady ==
    \A t \in Tasks :
      /\ pc[t] # "failed"
      /\ pc[t] = "done" =>
            /\ isReady(detector)
            /\ last.op \in InferenceOps => last.error # NotReadyError

\* detect() answers after initialize() on a fresh detector, whose buffer
\* holds the synthetic samples and nothing else
C4_Witness ==
    /\ pc[1] = "done"
    /\ calls = 0
    /\ now = 1
    /\ detector.trainingData =
         << [v |-> "synthetic_normal", n |-> 1000], [v |-> "synthetic_anomalous", n |-> 50] >>
    /\ last.op = "detect"
    /\ last.error = NoError

\* C5: the training buffer never holds more than 10000 samples.
C5_BufferBounded == ArrLen(detector.trainingData) <= 10000


\* The positions of the last element of each run of an array.  Between two
\* such positions the array is constant, so two arrays that agree at these
\* positions and right after them agree everywhere.
RunEnds(a) == { ArrLen(SubSeq(a, 1, j)) : j \in 1..Len(a) }

\* the forest and the baseline of d are those of a pass over its buffer
FittedOnBuffer(d) ==
    LET matrix == VectorsOf(d.trainingData)
    IN /\ d.isolationForest.trained
       /\ d.isolationForest.trees.count = NumTrees
       /\ d.isolationForest.trees.matrix = matrix
       /\ d.statisticalBaseline = calculateStatisticalBaseline(matrix)

\* C6: after updateModel(newSamples) the buffer is the last
\* min(10000, old length + new length) elements of the old buffer followed
\* by newSamples, in order, and a pass started by the call is fitted on
\* that buffer.
C6_FifoEviction ==
    [][last'.op = "updateModel" =>
         LET old == detector.trainingData
             new == last'.arg
             buffer == detector'.trainingData
             total == ArrLen(old) + ArrLen(new)
             keep == Min(10000, total)
             drop == total - keep
             Joined(i) == IF i <= ArrLen(old) THEN At(old, i) ELSE At(new, i - ArrLen(old))
             ends == RunEnds(buffer)
                     \cup { e - drop : e \in RunEnds(old) }
                     \cup { e + ArrLen(old) - drop : e \in RunEnds(new) }
             probes == { p \in {1, keep} \cup ends \cup { e + 1 : e \in ends } :
                           1 <= p /\ p <= keep }
         IN /\ ArrLen(buffer) = keep
            /\ \A i \in probes : At(buffer, i) = Joined(i + drop)
            /\ last'.result => detector'.isolationForest.trees.matrix = VectorsOf(buffer)]_vars

\* A batch of 9950 samples has pushed out the oldest 50 of 100, and the
\* pass it started was fitted on what is left
C6_Witness ==
    /\ last.op = "updateModel"
    /\ last.result = TRUE
    /\ detector.trainingData = << [v |-> "sparse", n |-> 50], [v |-> "typical", n |-> 9950] >>
    /\ detector.isolationForest.trees.matrix = VectorsOf(detector.trainingData)

\* C7: updateModel(newSamples) calls trainModel() exactly when the batch
\* holds more than 100 samples; a batch of 100 or fewer leaves the forest,
\* the baseline, the readiness flag and the timestamp as they were.
C7_RetrainOnlyOnLargeBatch ==
    [][last'.op = "updateModel" =>
         LET size == ArrLen(last'.arg)
         IN /\ last'.result = (size > 100)
            /\ (now' # now) = (size > 100)
            /\ size <= 100 =>
                 /\ detector'.isolationForest = detector.isolationForest
                 /\ detector'.statisticalBaseline = detector.statisticalBaseline
                 /\ detector'.isModelReady = detector.isModelReady
                 /\ detector'.lastTrainingTime = detector.lastTrainingTime]_vars

\* A batch of exactly 100 samples has been buffered by a trained detector
\* without a pass
C7_Witness ==
    /\ last.op = "updateModel"
    /\ ArrLen(last.arg) = 100
    /\ last.result = FALSE
    /\ isReady(detector)
    /\ detector.lastTrainingTime = now

\* C8 as stated: once 100 samples or more have been added since the last
\* completed pass, the updateModel() call that added them starts a pass and
\* leaves the detector ready with a model fitted on the new buffer.
C8_AccumulationRetrains ==
    [][last'.op = "updateModel" /\ pending + ArrLen(last'.arg) >= 100 =>
         /\ last'.result = TRUE
         /\ isReady(detector')
         /\ FittedOnBuffer(detector')]_vars

\* C8 as amended: a pass is started by one updateModel() batch of more than
\* 100 samples, and then the detector is ready with a model fitted on the
\* new buffer and nothing is pending; a batch of 100 or fewer starts none,
\* leaves the forest and its timestamp alone and adds to what is pending,
\* whatever has been added before.
C8_LargeBatchRetrains ==
    [][last'.op = "updateModel" =>
         IF ArrLen(last'.arg) > 100
         THEN /\ last'.result = TRUE
              /\ isReady(detector')
              /\ FittedOnBuffer(detector')
              /\ pending' = 0
         ELSE /\ last'.result = FALSE
              /\ pending' = pending + ArrLen(last'.arg)
              /\ now' = now
              /\ detector'.isolationForest = detector.isolationForest
              /\ detector'.lastTrainingTime = detector.lastTrainingTime]_vars

\* A trained detector has been retrained by a large batch that followed
\* a small one
C8_Witness ==
    /\ last.op = "updateModel"
    /\ last.result = TRUE
    /\ now = 2
    /\ calls = 2
    /\ pending = 0
    /\ FittedOnBuffer(detector)

\* C9: whenever an inference call can run, the model it would read is whole:
\* either no tree and no baseline, and the call is refused, or numTrees
\* trees and the baseline of the matrix those trees were built from.
C9_NoPartialModel ==
    LET forest == detector.isolationForest
        baseline == detector.statisticalBaseline
    IN /\ forest.trees.count \in {0, forest.numTrees}
       /\ forest.trees.count = 0 => ~isReady(detector) /\ Len(baseline.means) = 0
       /\ isReady(detector) =>
            /\ forest.trained
            /\ forest.trees.count = forest.numTrees
            /\ Len(baseline.means) = NumFeatures
            /\ Len(baseline.stds) = NumFeatures
            /\ Len(baseline.quantiles) = NumFeatures
            /\ baseline = calculateStatisticalBaseline(forest.trees.matrix)
       /\ last.op \in InferenceOps /\ last.error = NoError => isReady(detector)

\* detect() has answered after a second training pass
C9_Witness ==
    /\ now = 2
    /\ last.op = "detect"
    /\ last.error = NoError
    /\ detector.lastTrainingTime = 2

\* the fields detectBatch and detect both report
SameScores(batched, single) ==
    /\ batched.score = single.score
    /\ batched.is_anomaly = single.is_anomaly
    /\ batched.isolation_score = single.isolation_score
    /\ batched.statistical_score = single.statistical_score

\* C10: detectBatch returns one result per input, in order, each with the
\* score, is_anomaly, isolation_score and statistical_score detect() gives
\* that input on the same model; an inference call leaves the detector as
\* it was.
C10_BatchAgreesWithSingle ==
    /\ [](last.op = "detectBatch" /\ last.error = NoError =>
            /\ Len(last.result) = Len(last.arg)
            /\ \A i \in 1..Len(last.arg) :
                 LET single == detect(detector, Sample(last.arg[i]))
                 IN single.error = NoError /\ SameScores(last.result[i], single.result))
    /\ [][last'.op \in InferenceOps => detector' = detector]_vars

\* detectBatch has answered for two inputs that score differently
C10_Witness ==
    /\ last.op = "detectBatch"
    /\ last.error = NoError
    /\ Len(last.arg) = 2
    /\ last.result[1].score # last.result[2].score
    /\ last.result[1].is_anomaly # last.result[2].is_anomaly

\* C11: predict on a trained forest returns exactly one score per input
\* row, the score of row i in place i, and every score is above 0 and at
\* most 1, whether the forest was fitted on fewer rows than subsampleSize,
\* as many, or more.
C11_PredictShapeAndRange ==
    last.op = "predict" =>
      IF iforest.trained
      THEN /\ last.error = NoError
           /\ Len(last.result) = Len(last.arg)
           /\ \A i \in 1..Len(last.result) :
                 /\ 0 < last.result[i]
                 /\ last.result[i] <= Unit
                 /\ last.result[i] = ScoreOf(iforest, last.arg[i])
      ELSE last.error = NotTrainedError

\* Two rows have got different scores from a forest fitted on the 1050
\* synthetic rows: its trees were built on 256 of them, 206 of one kind
\* and 50 of the other
C11_Witness ==
    /\ last.op = "predict"
    /\ last.error = NoError
    /\ Len(last.arg) = 2
    /\ last.result[1] # last.result[2]
    /\ \E i \in 1..Len(iforest.trees) :
          LET tree == iforest.trees[i].v
          IN /\ tree.type = "internal"
             /\ tree.left.type = "leaf"
             /\ tree.left.size = 50
             /\ tree.right.type = "leaf"
             /\ tree.right.size = 206

\* analyzeData has returned an analysis
Analysed == last.op = "analyzeData" /\ last.error = NoError /\ last.result = "analysis"

\* the analysis it returned
LastAnalysis == trace.analyses[Len(trace.analyses)].analysis

\* C12: the reported risk_level is the bucket of the reported risk_score:
\* critical iff risk_score >= 80, high iff 60 <= risk_score < 80, medium
\* iff 40 <= risk_score < 60, low iff risk_score < 40.
C12_LevelBucketsScore ==
    Analysed =>
      LET assessment == LastAnalysis.risk_assessment
          score == assessment.risk_score
      IN /\ (assessment.risk_level = "critical") = (score >= 80)
         /\ (assessment.risk_level = "high") = (60 <= score /\ score < 80)
         /\ (assessment.risk_level = "medium") = (40 <= score /\ score < 60)
         /\ (assessment.risk_level = "low") = (score < 40)

\* the multiplier of a threat type, in tenths
ClaimedMultiplier(type) ==
    IF type = "ransomware" THEN 15
    ELSE IF type = "apt" THEN 13
    ELSE IF type \in {"malware", "botnet"} THEN 12
    ELSE IF type = "phishing" THEN 11
    ELSE 10

\* the weighted sum of the six factors an assessment reports, in 1/100000
WeightedSum(assessment) ==
    LET factors == assessment.contributing_factors
    IN factors.severity * 25 + factors.confidence * 20 + factors.anomaly * 20
       + factors.behavioral * 15 + factors.temporal * 10 + factors.asset_criticality * 10

\* C13 as stated: mitigation_priority is round(risk_score/10 x multiplier)
\* clamped to [0, 10], risk_score being the reported integer.
C13_PriorityFromRiskScore ==
    Analysed =>
      LET assessment == LastAnalysis.risk_assessment
          multiplier == ClaimedMultiplier(LastAnalysis.threat_classification.threat_type)
      IN assessment.mitigation_priority
           = Min(10, Round(assessment.risk_score * multiplier, 100))

\* C13 as amended: mitigation_priority is round(base x multiplier) capped
\* at 10, where base is round(10 x w), w is the weighted sum of the six
\* factors before any rounding and risk_score is round(100 x w).
C13_PriorityFromBase ==
    Analysed =>
      LET assessment == LastAnalysis.risk_assessment
          multiplier == ClaimedMultiplier(LastAnalysis.threat_classification.threat_type)
          w == WeightedSum(assessment)
      IN /\ assessment.risk_score = Round(w, 1000)
         /\ assessment.mitigation_priority = Min(10, Round(Round(w, 10000) * multiplier, 10))
         /\ assessment.mitigation_priority \in 0..10

\* A ransomware assessment below the cap whose priority is not the one the
\* reported risk_score gives
C13_Witness ==
    /\ Analysed
    /\ LastAnalysis.threat_classification.threat_type = "ransomware"
    /\ LastAnalysis.risk_assessment.mitigation_priority < 10
    /\ LastAnalysis.risk_assessment.mitigation_priority
         # Min(10, Round(LastAnalysis.risk_assessment.risk_score * 15, 100))

\* C14: with a classifier confidence in [0, 100], a deviation score in
\* [0, 1] and an anomaly score in [0, 1], composite_score is an integer
\* in [0, 100].
C14_CompositeInRange ==
    Analysed =>
      /\ LastAnalysis.threat_classification.confidence \in 0..100
      /\ LastAnalysis.anomaly_detection.anomaly_score \in 0..Unit
      /\ LastAnalysis.composite_score \in 0..100

\* the four component scores, each in [0, 1], in thousandths
NormalizedScores(analysis) ==
    << analysis.risk_assessment.risk_score * 10,
       analysis.anomaly_detection.anomaly_score,
       analysis.threat_classification.confidence * 10,
       OrElse(analysis.behavioral_analysis.deviation_score, 500) >>

\* C15: confidence_level is round(100 x max(0.1, 1 - v)), v the population
\* variance of the four normalized component scores; it is an integer in
\* [10, 100], and 100 when the four scores are equal.
C15_ConfidenceFromVariance ==
    Analysed =>
      LET scores == NormalizedScores(LastAnalysis)
          v == calculateVariance(scores)
          agreement == IF 1000000 - v > 100000 THEN 1000000 - v ELSE 100000
      IN /\ LastAnalysis.confidence_level = Round(agreement, 10000)
         /\ LastAnalysis.confidence_level \in 10..100
         /\ MaxOf(scores) = MinOf(scores) => LastAnalysis.confidence_level = 100

\* C17: a record with severity "critical", confidence_score 90, no anomaly
\* flagged, no behavioral deviation score and last_seen equal to the current
\* time gets risk_score >= 60 and a risk_level of high or critical.
C17_CriticalRecentIsHigh ==
    Analysed =>
      LET data == last.arg
          analysis == LastAnalysis
      IN ( /\ data.severity_level = "critical"
           /\ data.confidence_score = Some(90)
           /\ ~analysis.anomaly_detection.is_anomaly
           /\ analysis.behavioral_analysis.deviation_score = None
           /\ data.last_seen = Some(clock) )
         => /\ analysis.risk_assessment.risk_score >= 60
            /\ analysis.risk_assessment.risk_level \in {"high", "critical"}

\* Such a record has been assessed
C17_Witness ==
    /\ Analysed
    /\ last.arg.severity_level = "critical"
    /\ last.arg.confidence_score = Some(90)
    /\ last.arg.last_seen = Some(clock)
    /\ ~LastAnalysis.anomaly_detection.is_anomaly
    /\ LastAnalysis.behavioral_analysis.deviation_score = None
    /\ LastAnalysis.risk_assessment.risk_level = "high"

\* the rank of a priority
Rank(priority) ==
    IF priority = "critical" THEN 0
    ELSE IF priority = "high" THEN 1
    ELSE IF priority = "medium" THEN 2
    ELSE 3

\* the places of an action in a list of recommendations
Places(recommendations, action) ==
    { i \in 1..Len(recommendations) : recommendations[i].action = action }

\* a comes before b wherever both are in the list
Precedes(recommendations, a, b) ==
    \A i \in Places(recommendations, a), j \in Places(recommendations, b) : i < j

\* C18: the recommendations are in non-decreasing priority rank, in rule
\* order among equal priorities, and end with the one
\* "update_threat_intelligence" entry; for risk_score 85, threat type
\* "malware" and an anomaly the first entry is the critical
\* "immediate_investigation" and "antivirus_scan" comes before
\* "update_threat_intelligence".
C18_RecommendationOrder ==
    Analysed =>
      LET analysis == LastAnalysis
          recommendations == analysis.recommendations
          n == Len(recommendations)
      IN /\ \A i \in 1..n, j \in 1..n :
               i < j => Rank(recommendations[i].priority) <= Rank(recommendations[j].priority)
         /\ Precedes(recommendations, "immediate_investigation", "isolate_affected_assets")
         /\ Precedes(recommendations, "behavioral_analysis", "antivirus_scan")
         /\ Places(recommendations, "update_threat_intelligence") = {n}
         /\ ( /\ analysis.risk_assessment.risk_score = 85
              /\ analysis.threat_classification.threat_type = "malware"
              /\ analysis.anomaly_detection.is_anomaly )
            => /\ recommendations[1].priority = "critical"
               /\ recommendations[1].action = "immediate_investigation"
               /\ Precedes(recommendations, "antivirus_scan", "update_threat_intelligence")
               /\ Places(recommendations, "antivirus_scan") # {}

\* The five recommendations of an anomalous malware record with risk_score 85
C18_Witness ==
    /\ Analysed
    /\ LastAnalysis.risk_assessment.risk_score = 85
    /\ LastAnalysis.threat_classification.threat_type = "malware"
    /\ LastAnalysis.anomaly_detection.is_anomaly
    /\ Len(LastAnalysis.recommendations) = 5

\* two analyses of the same record with the same anomaly, classification
\* and behavioral results
SameInputs(a, b) ==
    /\ a.data = b.data
    /\ a.anomalyResult = b.anomalyResult
    /\ a.classificationResult = b.classificationResult
    /\ a.behavioralResult = b.behavioralResult

\* two analyses with the same composite_score and confidence_level
SameComposite(a, b) ==
    /\ a.analysis.composite_score = b.analysis.composite_score
    /\ a.analysis.confidence_level = b.analysis.confidence_level

\* the age of last_seen at the time t: within the hour, the day, the week,
\* older, or no last_seen
AgeBand(lastSeen, t) ==
    IF lastSeen = None THEN "none"
    ELSE IF t - lastSeen[1] <= 1 THEN "hour"
    ELSE IF t - lastSeen[1] <= 24 THEN "day"
    ELSE IF t - lastSeen[1] <= 168 THEN "week"
    ELSE "older"

\* C16 as stated: two analyses of the same record with the same anomaly,
\* classification and behavioral results return the same composite_score
\* and the same confidence_level, however far apart in time.
C16_SameInputsSameScores ==
    \A i \in DOMAIN trace.analyses, j \in DOMAIN trace.analyses :
        SameInputs(trace.analyses[i], trace.analyses[j])
          => SameComposite(trace.analyses[i], trace.analyses[j])

\* C16 as amended: two such analyses return the same composite_score and
\* confidence_level when the age of the record's last_seen falls in the
\* same band at both calls (at most 1 hour, at most 24 hours, at most 168
\* hours, older) or the record has no last_seen.
C16_SameBandSameScores ==
    \A i \in DOMAIN trace.analyses, j \in DOMAIN trace.analyses :
        ( /\ SameInputs(trace.analyses[i], trace.analyses[j])
          /\ AgeBand(trace.analyses[i].data.last_seen, trace.analyses[i].at)
               = AgeBand(trace.analyses[j].data.last_seen, trace.analyses[j].at) )
          => SameComposite(trace.analyses[i], trace.analyses[j])

\* The same record analysed twice with the same results, hours apart and
\* within the same day
C16_Witness ==
    /\ Len(trace.analyses) = 2
    /\ SameInputs(trace.analyses[1], trace.analyses[2])
    /\ trace.analyses[1].data.last_seen = Some(0)
    /\ trace.analyses[1].at = 12
    /\ trace.analyses[2].at = 24

\* the records of the batches taken so far
RECURSIVE Flatten(_)
Flatten(batches) ==
    IF batches = <<>> THEN <<>> ELSE Head(batches) \o Flatten(Tail(batches))

\* C19: the engine accumulates the records it analyses in its batch buffer
\* until the timer drains them for detectBatch: every record analysed so
\* far is in the buffer or in a batch the timer has taken, so that the
\* buffer reaches the batch size once that many records were submitted.
C19_AnalysedRecordsBuffered ==
    Len(Flatten(trace.batches)) + Len(engine.batchBuffer) >= Len(trace.analyses)

Range(seq) == { seq[i] : i \in DOMAIN seq }

\* C20: a batch whose processing fails is dropped: its records are not put
\* back into the buffer and are in no later batch (the batches taken so far,
\* followed by the buffer, are the records once each and in order), no
\* exception leaves processBatch, the error is recorded, and a later call
\* or timer tick on a full buffer still takes its batch.
C20_FailedBatchDropped ==
    LET taken == Flatten(trace.batches) \o engine.batchBuffer
    IN /\ taken = [i \in 1..Len(taken) |-> BatchRecord(i)]
       /\ \A k \in DOMAIN trace.batches :
             Len(trace.batches[k]) \in 1..engine.batchSize
       /\ Len(trace.errors) <= Len(trace.batches)
       /\ \A k \in DOMAIN trace.errors :
             trace.errors[k] = <<"batch_processing", NotReadyError>>
       /\ last.op \in {"processBatch", "tick"} =>
             /\ last.error = NoError
             /\ last.result = "batch" =>
                   /\ trace.batches # <<>>
                   /\ ~detector.isModelReady =>
                         Len(trace.errors) = Len(trace.batches)
             /\ (last.op = "tick" /\ last.result = "idle") =>
                   Len(engine.batchBuffer) < engine.batchSize
             /\ (last.op = "processBatch" /\ last.result = "idle") =>
                   engine.batchBuffer = <<>>

\* A batch failed and was dropped, and the timer has taken the next one
C20_Witness ==
    /\ Len(trace.batches) = 2
    /\ trace.errors = << <<"batch_processing", NotReadyError>> >>
    /\ trace.batches[1] = <<BatchRecord(1)>>
    /\ last.op = "tick"
    /\ trace.batches[2] = <<BatchRecord(2)>>
    /\ engine.batchBuffer = <<BatchRecord(3)>>

\* C21: a failure of the threat classifier or of the behavioral analyzer
\* does not abort the analysis: no call of analyzeData ends by throwing the
\* collaborator's error in place of returning an analysis
C21_CollaboratorFailureTolerated ==
    /\ last.error \notin CollaboratorErrors
    /\ \A k \in DOMAIN trace.errors : trace.errors[k][2] \notin CollaboratorErrors

\* the three arrays of a baseline have n entries each
BaselineOfLength(baseline, n) ==
    /\ Len(baseline.means) = n
    /\ Len(baseline.stds) = n
    /\ Len(baseline.quantiles) = n

\* C22: the three arrays of the statistical baseline have the same length,
\* 0 before any training pass and the feature count 10 after one; a
\* successful training pass replaces all three by the values computed from
\* the matrix of that pass, and no other step touches them
C22_BaselineReplacedWhole ==
    /\ BaselineOfLength(detector.statisticalBaseline, 0)
    /\ [][ /\ BaselineOfLength(detector'.statisticalBaseline,
                             IF now' = 0 THEN 0 ELSE NumFeatures)
           /\ now' # now =>
                 detector'.statisticalBaseline =
                    calculateStatisticalBaseline(VectorsOf(detector'.trainingData))
           /\ now' = now =>
                 detector'.statisticalBaseline = detector.statisticalBaseline ]_vars

\* a second training pass, over a buffer that is no longer the cold-start
\* one, has replaced the baseline of the first
C22_Witness ==
    /\ now = 2
    /\ ArrLen(detector.trainingData) > NumSyntheticNormal + NumSyntheticAnomalous
    /\ BaselineOfLength(detector.statisticalBaseline, NumFeatures)
    /\ detector.statisticalBaseline.means #
          calculateStatisticalBaseline(
              VectorsOf(generateInitialTrainingData(AnomalyDetector).trainingData)).means

\* the behavioral factor as claimed: the deviation score supplied, 0
\* included, and 0.5 when none is
ClaimedBehavioral(behavioralResult) ==
    IF behavioralResult.deviationScore = None THEN 500
    ELSE behavioralResult.deviationScore[1]

\* C23: the behavioral factor of the risk assessment and of the composite
\* score is the analyzer's deviation score whenever one is supplied, 0
\* included, and the default 0.5 only when it is absent
C23_BehavioralFactorIsDeviation ==
    Analysed =>
        LET entry == trace.analyses[Len(trace.analyses)]
            analysis == entry.analysis
            behavioralScore == ClaimedBehavioral(entry.behavioralResult)
        IN /\ analysis.risk_assessment.contributing_factors.behavioral = behavioralScore
           /\ analysis.composite_score =
                 Round(analysis.risk_assessment.risk_score * 10 * 40
                       + analysis.anomaly_detection.anomaly_score * 25
                       + analysis.threat_classification.confidence * 1000 * 25
                       + behavioralScore * 10, 1000)

\* C24: initialize() adds no synthetic sample to a buffer that already
\* holds enough real samples to train on (at least 10): in the buffer no
\* run of synthetic samples comes behind 10 or more samples pushed before it
C24_NoColdStartOverRealSamples ==
    \A j \in DOMAIN detector.trainingData :
        detector.trainingData[j].v = "synthetic_normal" =>
            ArrLen(SubSeq(detector.trainingData, 1, j - 1)) < MinTrainingSamples

\* the rows of X on one side of a split
Side(X, feature, splitValue, left) ==
    SelectSeq(X, LAMBDA row : (row.v[feature] < splitValue) = left)

\* the tree is the one claimed for the rows X at this depth
RECURSIVE TreeAsClaimed(_, _, _, _, _)
TreeAsClaimed(tree, X, depth, maxDepth, rnd) ==
    LET n == ArrLen(X)
        feature == rnd.features[(depth % Len(rnd.features)) + 1]
        constant == \A i, j \in DOMAIN X : X[i].v[feature] = X[j].v[feature]
    IN IF tree.type = "leaf"
       THEN /\ tree.depth = depth
            /\ tree.size = n
            /\ depth <= maxDepth
            /\ depth >= maxDepth \/ n <= 1 \/ constant \/ rnd.split = 0
       ELSE LET leftData == Side(X, tree.feature, tree.splitValue, TRUE)
                rightData == Side(X, tree.feature, tree.splitValue, FALSE)
            IN /\ tree.type = "internal"
               /\ depth < maxDepth
               /\ n > 1
               /\ tree.feature = feature
               /\ ~constant
               /\ leftData # <<>>
               /\ rightData # <<>>
               /\ TreeAsClaimed(tree.left, leftData, depth + 1, maxDepth, rnd)
               /\ TreeAsClaimed(tree.right, rightData, depth + 1, maxDepth, rnd)

\* C25: buildTree ends, with maxDepth = ceil(log2(subsampleSize)); every
\* leaf of its tree is at depth <= maxDepth, every internal node has two
\* non-empty sides, and a node is a leaf exactly when it is at maxDepth, has
\* one row at most, its drawn feature is constant or one side of its split
\* is empty (the draw puts the split value on the minimum)
C25_TreeWellFormed ==
    /\ 2^iforest.maxDepth >= iforest.subsampleSize
    /\ iforest.maxDepth > 0 => 2^(iforest.maxDepth - 1) < iforest.subsampleSize
    /\ last.op = "buildTree" =>
          TreeAsClaimed(last.result, last.arg.X, 0, iforest.maxDepth, last.arg.rnd)

\* the depth of a tree
RECURSIVE Height(_)
Height(tree) ==
    IF tree.type = "leaf" THEN 0
    ELSE 1 + (IF Height(tree.left) > Height(tree.right)
              THEN Height(tree.left) ELSE Height(tree.right))

\* the leaves of a tree
RECURSIVE Leaves(_)
Leaves(tree) ==
    IF tree.type = "leaf" THEN {tree} ELSE Leaves(tree.left) \cup Leaves(tree.right)

\* a tree cut off at maxDepth with more than one row left in a leaf, and a
\* leaf above maxDepth
C25_Witness ==
    /\ last.op = "buildTree"
    /\ iforest.maxDepth = 2
    /\ Height(last.result) = iforest.maxDepth
    /\ \E leaf \in Leaves(last.result) : leaf.depth = iforest.maxDepth /\ leaf.size > 1
    /\ \E leaf \in Leaves(last.result) : leaf.depth < iforest.maxDepth

\* the place of a feature name in the fixed feature order
FeatureIndex(name) == CHOOSE i \in 1..NumFeatures : FeatureNames[i] = name

\* the features that deviate: the baseline's standard deviation is positive
\* and |x - mean| / std exceeds 2
Deviating(baseline, featureVector) ==
    { i \in 1..NumFeatures :
        /\ baseline.stds[i] > 0
        /\ Abs(featureVector[i] - baseline.means[i]) > 2 * baseline.stds[i] }

\* C26: the factors detect() returns are exactly the features whose baseline
\* standard deviation is positive and whose |z-score| exceeds 2, each once
\* and under the name at its index in the feature order, sorted by
\* non-increasing |z-score|: the first has the largest |z-score|
C26_FactorsAreTheDeviatingFeatures ==
    (last.op = "detect" /\ last.error = NoError) =>
        LET factors == last.result.factors
            baseline == detector.statisticalBaseline
            featureVector == prepareFeatureVector(Sample(last.arg))
            deviating == Deviating(baseline, featureVector)
        IN /\ \A k \in DOMAIN factors : factors[k].feature \in Range(FeatureNames)
           /\ { FeatureIndex(factors[k].feature) : k \in DOMAIN factors } = deviating
           /\ Len(factors) = Cardinality(deviating)
           /\ \A k \in DOMAIN factors :
                 LET i == FeatureIndex(factors[k].feature)
                 IN /\ factors[k].value = featureVector[i]
                    /\ factors[k].z_score = ZScore(baseline, featureVector, i)
                    /\ factors[k].z_score > 2 * Unit
           /\ \A j, k \in DOMAIN factors :
                 j < k => factors[j].z_score >= factors[k].z_score
           /\ factors # <<>> =>
                 \A i \in deviating : factors[1].z_score >= ZScore(baseline, featureVector, i)

\* detect() has returned several factors that the sort has moved out of the
\* feature order, on a baseline from which the typical sample deviates nowhere
C26_Witness ==
    /\ last.op = "detect"
    /\ last.error = NoError
    /\ Len(last.result.factors) > 2
    /\ \E j, k \in DOMAIN last.result.factors :
          /\ j < k
          /\ last.result.factors[j].z_score > last.result.factors[k].z_score
          /\ FeatureIndex(last.result.factors[j].feature)
               > FeatureIndex(last.result.factors[k].feature)
    /\ Deviating(detector.statisticalBaseline, VectorOf("typical")) = {}

\* C27: the is_anomaly flag of an analysis is the is_anomaly flag of the
\* detector's result for the record, the combined score compared with the
\* detector's anomalyThreshold
C27_EngineFlagIsDetectorFlag ==
    Analysed =>
        LET entry == trace.analyses[Len(trace.analyses)]
        IN /\ entry.anomalyResult.is_anomaly =
                 (entry.anomalyResult.score > detector.anomalyThreshold)
           /\ entry.analysis.anomaly_detection.is_anomaly = entry.anomalyResult.is_anomaly

\* C28: readiness is monotonic: no step of initialize(), trainModel(),
\* updateModel(), detect() or detectBatch() takes a detector for which
\* isReady() is true to one for which it is false
C28_ReadinessMonotonic ==
    [][isReady(detector) => isReady(detector')]_<<detector.isModelReady>>

\* a ready detector has been through further trainModel() or updateModel()
\* calls and inference calls, and is ready still
C28_Witness ==
    /\ isReady(detector)
    /\ now = 2
    /\ calls = MaxCalls
    /\ last.op \in InferenceOps
    /\ last.error = NoError

\* the value is null
IsNull(value) == ToString(value) = ToString(Null)

\* C29: while isReady() is true the model is complete: the forest's trained
\* flag is set, it holds exactly numTrees trees, the baseline has one entry
\* per feature and the last-training timestamp is set; while isReady() is
\* false the timestamp is null
C29_ReadyModelComplete ==
    LET forest == detector.isolationForest
    IN /\ isReady(detector) =>
            /\ forest.trained
            /\ forest.trees.count = forest.numTrees
            /\ forest.numTrees = NumTrees
            /\ BaselineOfLength(detector.statisticalBaseline, NumFeatures)
            /\ ~IsNull(detector.lastTrainingTime)
            /\ detector.lastTrainingTime = now
       /\ ~isReady(detector) => IsNull(detector.lastTrainingTime)

\* a detector that updateModel() has retrained, in a second training pass
C29_Witness ==
    /\ isReady(detector)
    /\ ~IsNull(detector.lastTrainingTime)
    /\ now = 2
    /\ last.op = "updateModel"
    /\ ArrLen(detector.trainingData) > NumSyntheticNormal + NumSyntheticAnomalous

\* C30: cold-start data is generated once for a detector: when every
\* initialize() call begun on a fresh detector has returned, overlapping or
\* not, the buffer holds exactly the 1,050 synthetic samples, 1,000 normal
\* and 50 anomalous
C30_ColdStartOnce ==
    (\A t \in Tasks : pc[t] = "done") =>
        detector.trainingData =
            << [v |-> "synthetic_normal", n |-> NumSyntheticNormal],
               [v |-> "synthetic_anomalous", n |-> NumSyntheticAnomalous] >>

====
